---- MODULE Spec2Model ----
(***************************************************************************)
(* Legal-AI-Analyzer: the clause segmenter, classifier, clause scorers,    *)
(* document analysis and risk aggregation of src/backened/AI_analyzer.py   *)
(* and src/backened/risk_analyzer.py.                                      *)
(*                                                                         *)
(* Text.  A Python str is modelled as a sequence of atoms.  An atom is a   *)
(* TLA+ string holding a run of characters that the program's patterns     *)
(* never look inside: a word, a stem ("terminat"), a suffix ("ion"), one   *)
(* white-space character, one punctuation mark, a run of digits.  The      *)
(* length of a text is the number of characters of its atoms (Len of the   *)
(* atom strings), so the thresholds 100, 50, 500 and 200 of the source     *)
(* keep their values.  `x in s` is "x is a contiguous run of atoms of s";  *)
(* the words of the term tables are cut into atoms where one term occurs   *)
(* inside another word ("un"+"limited", "immediate"+"ly", "reason"+"able").*)
(***************************************************************************)
EXTENDS Integers, Sequences, FiniteSets, TLC

VARIABLES
    pc,          \* position of the call under way
    text,        \* the text argument: a document, or one clause
    clause_type, \* the clause_type argument of a scorer call
    fault,       \* the places where this call meets an exception
    sections,    \* what _split_into_clauses returned
    record,      \* what the operation under way returned
    calls        \* the analyses completed so far, in order, each with its result

vars == <<pc, text, clause_type, fault, sections, record, calls>>

----------------------------------------------------------------------------
(* Sequences and strings *)

Min(a, b) == IF a < b THEN a ELSE b
Max(a, b) == IF a > b THEN a ELSE b

\* s[:n]
Take(s, n) == SubSeq(s, 1, Min(n, Len(s)))
\* s[n:] with n counted from 0
Drop(s, n) == SubSeq(s, Min(n, Len(s)) + 1, Len(s))

RECURSIVE Flatten(_)
Flatten(ss) == IF ss = <<>> THEN <<>> ELSE Head(ss) \o Flatten(Tail(ss))

RECURSIVE SumSeq(_)
SumSeq(ns) == IF ns = <<>> THEN 0 ELSE Head(ns) + SumSeq(Tail(ns))

\* len(s): the characters of the atoms of s
StrLen(s) == SumSeq([i \in 1..Len(s) |-> Len(s[i])])

WhiteSpace == {" ", "\n"}
DigitAtoms == {"1", "2", "3", "5", "30", "000", "00", "100"}
CapitalAtoms == {"SECTION", "ARTICLE", "TERMS", "NOTICE"}
LetterAtoms == {"a", "b", "c"}
OneCharAtoms == {" ", "\n", "-", ".", ",", ":", "(", ")", "$", "a", "b", "c",
                 "1", "2", "3", "5", "e", "s", "y"}

\* str.strip()
RECURSIVE LStrip(_)
LStrip(s) == IF s # <<>> /\ Head(s) \in WhiteSpace THEN LStrip(Tail(s)) ELSE s
RECURSIVE RStrip(_)
RStrip(s) ==
    IF s # <<>> /\ s[Len(s)] \in WhiteSpace THEN RStrip(SubSeq(s, 1, Len(s) - 1)) ELSE s
Strip(s) == RStrip(LStrip(s))

\* str.lower(), atom by atom
LowerAtom(a) ==
    CASE a = "SECTION" -> "section"
      [] a = "ARTICLE" -> "article"
      [] a = "TERMS" -> "terms"
      [] a = "NOTICE" -> "notice"
      [] a = "The" -> "the"
      [] a = "Company" -> "company"
      [] a = "Either" -> "either"
      [] a = "Agreement" -> "agreement"
      [] a = "One-sided" -> "one-sided"
      [] a = "Contains" -> "contains"
      [] OTHER -> a
Lower(s) == [i \in 1..Len(s) |-> LowerAtom(s[i])]

\* x in s, for a literal x
Contains(s, x) ==
    /\ {x[i] : i \in 1..Len(x)} \subseteq {s[i] : i \in 1..Len(s)}
    /\ \E i \in 1..(Len(s) - Len(x) + 1) : SubSeq(s, i, i + Len(x) - 1) = x

----------------------------------------------------------------------------
(* Regular expressions over atoms.  A pattern is a sequence of elements;   *)
(* an element matches a run of atoms of its class holding lo..hi           *)
(* characters (hi = -1: no upper limit), the longest run first, giving     *)
(* atoms back when the rest of the pattern fails (re's greedy matching).   *)

Lit(a) == [cls |-> {a}, lo |-> Len(a), hi |-> Len(a)]
Star(S) == [cls |-> S, lo |-> 0, hi |-> -1]
Plus(S) == [cls |-> S, lo |-> 1, hi |-> -1]
AtLeast(S, n) == [cls |-> S, lo |-> n, hi |-> -1]
Opt1(S) == [cls |-> S, lo |-> 0, hi |-> 1]
One(S) == [cls |-> S, lo |-> 1, hi |-> 1]
Word(w) == [i \in 1..Len(w) |-> Lit(w[i])]

\* the characters of the n atoms of s from position j
Chars(s, j, n) == StrLen(SubSeq(s, j, j + n - 1))

\* the longest run of atoms of class e.cls from position j within e.hi characters
RECURSIVE RunLen(_, _, _, _)
RunLen(e, s, j, n) ==
    IF /\ j + n <= Len(s)
       /\ s[j + n] \in e.cls
       /\ (e.hi = -1 \/ Chars(s, j, n + 1) <= e.hi)
    THEN RunLen(e, s, j, n + 1)
    ELSE n

\* the position after the match of pat[k..] at position j of s, or 0
RECURSIVE MatchAt(_, _, _, _)
RECURSIVE TryRun(_, _, _, _, _)
TryRun(pat, k, s, j, n) ==
    IF n < 0 \/ Chars(s, j, n) < pat[k].lo
    THEN 0
    ELSE LET r == MatchAt(pat, k + 1, s, j + n)
         IN  IF r # 0 THEN r ELSE TryRun(pat, k, s, j, n - 1)
MatchAt(pat, k, s, j) ==
    IF k > Len(pat) THEN j ELSE TryRun(pat, k, s, j, RunLen(pat[k], s, j, 0))

\* re.search(pat, s) is not None
Search(pat, s) == \E i \in 1..Len(s) : MatchAt(pat, 1, s, i) # 0

\* re.split(pat, s): cut at each leftmost match, scanning on after it.
\* from: where the part under way starts; i: the position looked at
RECURSIVE ReSplitFrom(_, _, _, _)
ReSplitFrom(pat, s, from, i) ==
    IF i > Len(s)
    THEN <<SubSeq(s, from, Len(s))>>
    ELSE LET e == MatchAt(pat, 1, s, i)
         IN  IF e # 0
             THEN <<SubSeq(s, from, i - 1)>> \o ReSplitFrom(pat, s, e, e)
             ELSE ReSplitFrom(pat, s, from, i + 1)
ReSplit(pat, s) == ReSplitFrom(pat, s, 1, 1)

----------------------------------------------------------------------------
(* Running text that holds no term, no separator and no white space *)
Body50 == "qqqqqqqqqqqqqqqqqqqqqqqqqqqqqqqqqqqqqqqqqqqqqqqqqq"
Body20 == "qqqqqqqqqqqqqqqqqqqq"

----------------------------------------------------------------------------
(* AIAnalyzer._split_into_clauses *)

clause_separators ==
    << <<Lit("\n"), Star(WhiteSpace), Plus(DigitAtoms), Lit("."), Plus(WhiteSpace)>>,
       <<Lit("\n"), Star(WhiteSpace), Lit("("), One(LetterAtoms), Lit(")"),
         Plus(WhiteSpace)>>,
       <<Lit("\n"), Star(WhiteSpace), AtLeast(CapitalAtoms \cup WhiteSpace, 3), Lit(":"),
         Star(WhiteSpace), Lit("\n")>>,
       <<Lit("\n"), Star(WhiteSpace), Lit("SECTION"), Plus(WhiteSpace), Plus(DigitAtoms)>>,
       <<Lit("\n"), Star(WhiteSpace), Lit("ARTICLE"), Plus(WhiteSpace), Plus(DigitAtoms)>> >>

MinClauseLen == 100
MaxClauses == 20
MaxFallbackClauses == 10

\* [p.strip() for p in parts if p.strip()]
StripNonEmpty(parts) ==
    SelectSeq([i \in 1..Len(parts) |-> Strip(parts[i])], LAMBDA p : p # <<>>)

\* one pass of the loop over clause_separators
SplitPass(pattern, secs) ==
    Flatten([i \in 1..Len(secs) |-> StripNonEmpty(ReSplit(pattern, secs[i]))])

RECURSIVE SplitPasses(_, _)
SplitPasses(patterns, secs) ==
    IF patterns = <<>> THEN secs
    ELSE SplitPasses(Tail(patterns), SplitPass(Head(patterns), secs))

\* sections, after the loop over clause_separators
Fragments(txt) == SplitPasses(clause_separators, <<txt>>)

MeaningfulSectionsUnfiltered(txt) == Fragments(txt)

\* the filter with the threshold analyze_document uses for its sections
MeaningfulSectionsOverSubstantialLen(txt) ==
    SelectSeq(Fragments(txt), LAMBDA s : StrLen(s) > 50)

\* meaningful_sections
MeaningfulSections(txt) ==
    SelectSeq(Fragments(txt), LAMBDA s : StrLen(s) > MinClauseLen)

\* the except branch: text.split('\n\n'), stripped
Paragraphs(txt) ==
    [i \in 1..Len(ReSplit(<<Lit("\n"), Lit("\n")>>, txt)) |->
        Strip(ReSplit(<<Lit("\n"), Lit("\n")>>, txt)[i])]

\* the except branch: the paragraphs, filtered and capped
ParagraphFallback(txt) ==
    Take(SelectSeq(Paragraphs(txt), LAMBDA p : StrLen(p) > MinClauseLen),
         MaxFallbackClauses)

_split_into_clauses_KeepsLast(txt, raised) ==
    IF raised
    THEN Drop(SelectSeq(Paragraphs(txt), LAMBDA p : StrLen(p) > MinClauseLen),
              Max(0, Len(SelectSeq(Paragraphs(txt), LAMBDA p : StrLen(p) > MinClauseLen))
                       - MaxFallbackClauses))
    ELSE Drop(MeaningfulSections(txt), Max(0, Len(MeaningfulSections(txt)) - MaxClauses))

\* raised: an exception inside the try block
_split_into_clauses(txt, raised) ==
    IF raised THEN ParagraphFallback(txt)
    ELSE Take(MeaningfulSections(txt), MaxClauses)

----------------------------------------------------------------------------
(* AIAnalyzer: the tables of __init__ *)

WS1 == Plus(WhiteSpace)

\* clause_patterns, in declared order.  A trailing \w* or s? matches the empty
\* string, so re.search finds the pattern exactly where its stem is; the
\* optional groups of the second termination pattern are written out as
\* alternatives.
clause_patterns ==
    << [type |-> "termination",
        patterns |-> << Word(<<"terminat">>),
                        <<Lit("end"), WS1, Lit("agreement")>>,
                        <<Lit("end"), WS1, Lit("contract")>>,
                        <<Lit("end"), WS1, Lit("of"), WS1, Lit("agreement")>>,
                        <<Lit("end"), WS1, Lit("of"), WS1, Lit("contract")>>,
                        <<Lit("end"), WS1, Lit("this"), WS1, Lit("agreement")>>,
                        <<Lit("end"), WS1, Lit("this"), WS1, Lit("contract")>>,
                        <<Lit("end"), WS1, Lit("of"), WS1, Lit("this"), WS1, Lit("agreement")>>,
                        <<Lit("end"), WS1, Lit("of"), WS1, Lit("this"), WS1, Lit("contract")>>,
                        Word(<<"expire">>), Word(<<"dissolution">>),
                        Word(<<"can", "cell">>) >>],
       [type |-> "liability",
        patterns |-> << Word(<<"liabilit">>), Word(<<"responsible">>), Word(<<"damage">>),
                        Word(<<"loss">>), Word(<<"indemnif">>),
                        <<Lit("hold"), WS1, Lit("harmless")>> >>],
       [type |-> "payment",
        patterns |-> << Word(<<"pay", "ment">>), Word(<<"pay">>), Word(<<"fee">>),
                        Word(<<"cost">>), Word(<<"price">>), Word(<<"invoice">>),
                        Word(<<"billing">>), Word(<<"charge">>) >>],
       [type |-> "confidentiality",
        patterns |-> << Word(<<"confidential">>),
                        <<Lit("non"), Opt1(OneCharAtoms), Lit("disclosure")>>,
                        Word(<<"proprietary">>),
                        <<Lit("trade"), WS1, Lit("secret")>>,
                        Word(<<"private">>) >>],
       [type |-> "intellectual_property",
        patterns |-> << <<Lit("intellectual"), WS1, Lit("property")>>,
                        Word(<<"copyright">>), Word(<<"trademark">>), Word(<<"patent">>),
                        Word(<<"ownership">>) >>],
       [type |-> "dispute_resolution",
        patterns |-> << Word(<<"dispute">>), Word(<<"arbitration">>), Word(<<"mediation">>),
                        Word(<<"court">>), Word(<<"jurisdiction">>),
                        <<Lit("governing"), WS1, Lit("law")>> >>] >>

high_risk_keywords ==
    << <<"un", "limited", " ", "liabilit", "y">>,
       <<"personal", " ", "guarantee">>,
       <<"no", " ", "refund">>,
       <<"immediate", " ", "terminat", "ion">>,
       <<"sole", " ", "discretion">>,
       <<"without", " ", "cause">>,
       <<"liquidated", " ", "damage", "s">>,
       <<"penalty">>,
       <<"forfeiture">> >>

medium_risk_keywords ==
    << <<"limited", " ", "liabilit", "y">>,
       <<"reason", "able", " ", "notice">>,
       <<"material", " ", "breach">>,
       <<"cure", " ", "period">>,
       <<"mutual", " ", "agreement">>,
       <<"sta", "nda", "rd", " ", "terms">> >>

obligation_words ==
    << <<"shall">>,
       <<"will">>,
       <<"must">>,
       <<"required">> >>

permission_words ==
    << <<"may">>,
       <<"can">>,
       <<"permitted">>,
       <<"allowed">> >>

\* any(x in s for x in xs)
AnyIn(xs, s) == \E i \in 1..Len(xs) : Contains(s, xs[i])
\* [x for x in xs if x in s]
FoundIn(xs, s) == SelectSeq(xs, LAMBDA x : Contains(s, x))

----------------------------------------------------------------------------
(* AIAnalyzer._identify_clause_type *)

MatchesType(entry, text_lower) ==
    \E i \in 1..Len(entry.patterns) : Search(entry.patterns[i], text_lower)

FallbackType_RightFirst(text_lower) ==
    IF AnyIn(permission_words, text_lower) THEN "right"
    ELSE IF AnyIn(obligation_words, text_lower) THEN "obligation"
    ELSE "general"

\* the fallback classification after the loop over clause_patterns
FallbackType(text_lower) ==
    IF AnyIn(obligation_words, text_lower) THEN "obligation"
    ELSE IF AnyIn(permission_words, text_lower) THEN "right"
    ELSE "general"

RECURSIVE LastType(_, _)
LastType(entries, text_lower) ==
    IF entries = <<>> THEN FallbackType(text_lower)
    ELSE IF MatchesType(entries[Len(entries)], text_lower) THEN entries[Len(entries)].type
    ELSE LastType(SubSeq(entries, 1, Len(entries) - 1), text_lower)

RECURSIVE FirstType(_, _)
FirstType(entries, text_lower) ==
    IF entries = <<>> THEN FallbackType(text_lower)
    ELSE IF MatchesType(Head(entries), text_lower) THEN Head(entries).type
    ELSE FirstType(Tail(entries), text_lower)

\* the label of the fallback classification spelled as the key of the
\* aggregator's table of base scores
_identify_clause_type_TableKey(txt) ==
    IF FirstType(clause_patterns, Lower(txt)) = "obligation" THEN "obligations"
    ELSE FirstType(clause_patterns, Lower(txt))

_identify_clause_type(txt) == FirstType(clause_patterns, Lower(txt))

----------------------------------------------------------------------------
(* AIAnalyzer._simplify_clause *)

simplification_templates(ctype) ==
    CASE ctype = "termination" -> "This explains how either party can end the contract."
      [] ctype = "liability" -> "This describes who is responsible if something goes wrong."
      [] ctype = "payment" -> "This covers how much you pay and when payments are due."
      [] ctype = "confidentiality" -> "This requires keeping shared information private."
      [] ctype = "intellectual_property" -> "This defines who owns ideas and creative work."
      [] ctype = "dispute_resolution" -> "This explains how to resolve disagreements."
      [] ctype = "obligation" -> "This describes what you must do under the contract."
      [] ctype = "right" -> "This explains what you're allowed to do."
      [] OTHER -> "This is a standard contract provision."

\* the start of the leftmost match of any of the alternatives, or 0
FirstMatch(alts, s) ==
    LET starts == {i \in 1..Len(s) : \E k \in 1..Len(alts) : MatchAt(alts[k], 1, s, i) # 0}
    IN  IF starts = {} THEN 0 ELSE CHOOSE m \in starts : \A o \in starts : m <= o

\* (\d+)\s+days?\s+notice
notice_pattern ==
    << <<Plus(DigitAtoms), WS1, Lit("days"), WS1, Lit("notice")>>,
       <<Plus(DigitAtoms), WS1, Lit("day"), WS1, Lit("notice")>> >>
\* \$[\d,]+
amount_pattern == << <<Lit("$"), Plus(DigitAtoms \cup {","})>> >>

\* notice_match.group(1): the digits the match starts with
NoticeDays(text_lower) ==
    LET i == FirstMatch(notice_pattern, text_lower)
    IN  SubSeq(text_lower, i, i + RunLen(Plus(DigitAtoms), text_lower, i, 0) - 1)
\* amount_match.group()
AmountText(clause_text) ==
    LET i == FirstMatch(amount_pattern, clause_text)
    IN  SubSeq(clause_text, i, MatchAt(amount_pattern[1], 1, clause_text, i) - 1)

NoticeSentence(text_lower) ==
    IF Contains(text_lower, <<"notice">>) /\ FirstMatch(notice_pattern, text_lower) # 0
    THEN <<" You need to give ">> \o NoticeDays(text_lower) \o <<" days notice.">>
    ELSE <<>>
NoReasonSentence(text_lower) ==
    IF Contains(text_lower, <<"cause">>) /\ Contains(text_lower, <<"without">>)
    THEN <<" Either party can terminate without giving a specific reason.">>
    ELSE <<>>
AmountSentence(clause_text) ==
    IF FirstMatch(amount_pattern, clause_text) # 0
    THEN <<" The amount involved is ">> \o AmountText(clause_text) \o <<".">>
    ELSE <<>>
LateFeeSentence(text_lower) ==
    IF Contains(text_lower, <<"late">>) /\ Contains(text_lower, <<"fee">>)
    THEN <<" There are penalties for late payment.">>
    ELSE <<>>

_simplify_clause(clause_text, ctype) ==
    LET text_lower == Lower(clause_text)
    IN  <<simplification_templates(ctype)>> \o
        (IF Contains(text_lower, <<"terminat", "ion">>)
         THEN NoticeSentence(text_lower) \o NoReasonSentence(text_lower)
         ELSE IF Contains(text_lower, <<"pay", "ment">>)
         THEN AmountSentence(clause_text) \o LateFeeSentence(text_lower)
         ELSE <<>>)

----------------------------------------------------------------------------
(* AIAnalyzer._assess_clause_risk *)

DefaultScore == 5
MinScore == 1
MaxScore == 10

HighKeywordFactor(term) == <<"Contains high-risk term: '">> \o term \o <<"'">>
MediumKeywordFactor(term) == <<"Contains medium-risk term: '">> \o term \o <<"'">>
AllowsImmediateTermination == <<"Allows", " ", "immediate", " ", "terminat", "ion">>
UnlimitedLiabilityExposure == <<"Un", "limited", " ", "liabilit", "y", " ", "exposure">>
LiabilityIsLimited == <<"Liabilit", "y", " ", "is", " ", "limited">>
ContainsPaymentPenalties == <<"Contains payment penalties">>
StandardClause == <<"Standard clause with typical terms">>

TypeSpecificRiskExactPhrase(text_lower, ctype) ==
    IF ctype = "termination" /\ Contains(text_lower, <<"immediate", " ", "terminat", "ion">>)
    THEN <<2, <<AllowsImmediateTermination>> >> ELSE <<0, <<>> >>

\* the clause-specific branch: <<change of the score, factors added>>
TypeSpecificRisk(text_lower, ctype) ==
    CASE ctype = "termination" ->
           IF Contains(text_lower, <<"immediate">>)
              \/ Contains(text_lower, <<"without", " ", "notice">>)
           THEN <<2, <<AllowsImmediateTermination>> >> ELSE <<0, <<>> >>
      [] ctype = "liability" ->
           IF Contains(text_lower, <<"un", "limited">>)
           THEN <<3, <<UnlimitedLiabilityExposure>> >>
           ELSE IF Contains(text_lower, <<"limited">>)
           THEN <<-1, <<LiabilityIsLimited>> >> ELSE <<0, <<>> >>
      [] ctype = "payment" ->
           IF Contains(text_lower, <<"penalty">>)
              \/ Contains(text_lower, <<"liquidated", " ", "damage", "s">>)
           THEN <<2, <<ContainsPaymentPenalties>> >> ELSE <<0, <<>> >>
      [] OTHER -> <<0, <<>> >>

NormalizeNot(score) == score

\* risk_score = max(1, min(10, risk_score))
Normalize(score) == Max(MinScore, Min(MaxScore, score))

\* the if/elif/else of _assess_clause_risk that names the level
AssessLevel(score) ==
    IF score <= 3 THEN "low" ELSE IF score <= 7 THEN "medium" ELSE "high"

_assess_clause_risk_SentinelFirst(clause_text, ctype) ==
    LET text_lower == Lower(clause_text)
        high == FoundIn(high_risk_keywords, text_lower)
        medium == FoundIn(medium_risk_keywords, text_lower)
        specific == TypeSpecificRisk(text_lower, ctype)
        raw == DefaultScore + 2 * Len(high) + Len(medium) + specific[1]
        factors == [i \in 1..Len(high) |-> HighKeywordFactor(high[i])] \o
                   [i \in 1..Len(medium) |-> MediumKeywordFactor(medium[i])] \o
                   specific[2]
    IN  [score |-> Normalize(raw),
         level |-> AssessLevel(Normalize(raw)),
         factors |-> <<StandardClause>> \o factors]

_assess_clause_risk(clause_text, ctype) ==
    LET text_lower == Lower(clause_text)
        high == FoundIn(high_risk_keywords, text_lower)
        medium == FoundIn(medium_risk_keywords, text_lower)
        specific == TypeSpecificRisk(text_lower, ctype)
        raw == DefaultScore + 2 * Len(high) + Len(medium) + specific[1]
        factors == [i \in 1..Len(high) |-> HighKeywordFactor(high[i])] \o
                   [i \in 1..Len(medium) |-> MediumKeywordFactor(medium[i])] \o
                   specific[2]
    IN  [score |-> Normalize(raw),
         level |-> AssessLevel(Normalize(raw)),
         factors |-> IF factors = <<>> THEN <<StandardClause>> ELSE factors]

----------------------------------------------------------------------------
(* AIAnalyzer._analyze_clause *)

ContentLimit == 500
FallbackContentLimit == 200

\* a run of n filler characters; Body50 and Body20 are such runs
RECURSIVE QRun(_)
QRun(n) == IF n = 0 THEN "" ELSE "q" \o QRun(n - 1)

\* the first n characters of atom a, 0 < n < Len(a).  Filler text is cut to
\* filler text; a cut word is "~": the start of a word, which is no atom of any
\* term or pattern (its length is not read again).
CutAtom(a, n) == IF a = QRun(Len(a)) THEN QRun(n) ELSE "~"

\* s[:n], n counted in characters
RECURSIVE TakeChars(_, _)
TakeChars(s, n) ==
    IF s = <<>> \/ n <= 0 THEN <<>>
    ELSE IF Len(Head(s)) <= n
    THEN <<Head(s)>> \o TakeChars(Tail(s), n - Len(Head(s)))
    ELSE <<CutAtom(Head(s), n)>>

\* clause_text[:limit] + '...' if len(clause_text) > limit else clause_text
Truncated(clause_text, limit) ==
    IF StrLen(clause_text) > limit
    THEN TakeChars(clause_text, limit) \o <<"...">>
    ELSE clause_text

\* raised: an exception inside the try block.  id is the index i of the
\* string 'clause_{i}'; title holds the values the title string is made from.
_analyze_clause(clause_text, clause_index, raised) ==
    IF raised
    THEN [id |-> clause_index,
          title |-> [fmt |-> "Clause {n}", of |-> "", n |-> clause_index + 1],
          content |-> Truncated(clause_text, FallbackContentLimit),
          simplified |-> <<"Unable to analyze this clause automatically.">>,
          risk_level |-> "medium",
          risk_score |-> 5,
          risk_factors |-> << <<"Analysis failed">> >>,
          clause_type |-> "unknown"]
    ELSE LET ctype == _identify_clause_type(clause_text)
             risk_assessment == _assess_clause_risk(clause_text, ctype)
         IN  [id |-> clause_index,
              title |-> [fmt |-> "{type}.title()", of |-> ctype, n |-> 0],
              content |-> Truncated(clause_text, ContentLimit),
              simplified |-> _simplify_clause(clause_text, ctype),
              risk_level |-> risk_assessment.level,
              risk_score |-> risk_assessment.score,
              risk_factors |-> risk_assessment.factors,
              clause_type |-> ctype]

----------------------------------------------------------------------------
(* AIAnalyzer._detect_document_type, _generate_summary, analyze_document *)

_detect_document_type(txt) ==
    LET text_lower == Lower(txt)
        has(x) == Contains(text_lower, x)
    IN  IF has(<<"service", " ", "agreement">>) \/ has(<<"service", "s", " ", "agreement">>)
        THEN "Service Agreement"
        ELSE IF has(<<"employment">>) /\ has(<<"agreement">>) THEN "Employment Agreement"
        ELSE IF has(<<"lease">>) \/ has(<<"rental">>) THEN "Lease Agreement"
        ELSE IF has(<<"non", "-", "disclosure">>) \/ has(<<"nda">>)
        THEN "Non-Disclosure Agreement"
        ELSE IF has(<<"license">>) /\ has(<<"agreement">>) THEN "License Agreement"
        ELSE IF has(<<"purchase">>) \/ has(<<"sale">>) THEN "Purchase Agreement"
        ELSE IF has(<<"partnership">>) THEN "Partnership Agreement"
        ELSE IF has(<<"contract">>) THEN "Contract"
        ELSE "Legal Document"

\* The places of analyze_document where an exception can be met:
\*   split           inside the try block of _split_into_clauses
\*   split_fallback  inside its except branch as well (needs split)
\*   clause_0, clause_1, clause_n   inside the try block of _analyze_clause,
\*                   for the section at that index
\*   summary         inside the try block of _generate_summary
\*   doc_type        inside _detect_document_type
\* and the one of assess_risk:
\*   assess          inside the try block of assess_risk
FaultPoints ==
    {"split", "split_fallback", "clause_0", "clause_1", "clause_n", "summary", "doc_type",
     "assess"}
ClauseFault(i) == IF i = 0 THEN "clause_0" ELSE IF i = 1 THEN "clause_1" ELSE "clause_n"

\* The summary string, as the values it is formatted from (the word count and
\* the list of themes are left out).  A fault of the first split, or of
\* _detect_document_type, is met again here and caught by the except branch.
_generate_summary(txt, filename, faults) ==
    IF "summary" \in faults \/ "doc_type" \in faults
       \/ {"split", "split_fallback"} \subseteq faults
    THEN [kind |-> "Document analysis summary ... Analysis encountered some issues",
          filename |-> filename, doc_type |-> "", clause_count |-> 0]
    ELSE [kind |-> "This {doc_type} document ({filename}) ...",
          filename |-> filename,
          doc_type |-> _detect_document_type(txt),
          clause_count |-> Len(_split_into_clauses(txt, "split" \in faults))]

SubstantialLen == 50

\* the loop over enumerate(sections)
RECURSIVE AnalyzeSections(_, _, _)
AnalyzeSections(secs, i, faults) ==
    IF i >= Len(secs) THEN <<>>
    ELSE (IF StrLen(Strip(secs[i + 1])) > SubstantialLen
          THEN <<_analyze_clause(secs[i + 1], i, ClauseFault(i) \in faults)>>
          ELSE <<>>) \o AnalyzeSections(secs, i + 1, faults)

\* the except branch of analyze_document
DegradedAnalysis(timestamp) ==
    [summary |-> [kind |-> "Error analyzing document: ...", filename |-> "",
                  doc_type |-> "", clause_count |-> 0],
     clauses |-> <<>>,
     analysis_timestamp |-> timestamp,
     document_type |-> "unknown"]

analyze_document_DegradedOnAnyFault(txt, filename, faults, timestamp) ==
    IF faults \cap (FaultPoints \ {"assess"}) # {}
    THEN DegradedAnalysis(timestamp)
    ELSE [summary |-> _generate_summary(txt, filename, faults),
          clauses |-> AnalyzeSections(_split_into_clauses(txt, FALSE), 0, faults),
          analysis_timestamp |-> timestamp,
          document_type |-> _detect_document_type(txt)]

analyze_document_SharedCounter(txt, filename, faults, timestamp) ==
    IF {"split", "split_fallback"} \subseteq faults \/ "doc_type" \in faults
    THEN DegradedAnalysis(timestamp)
    ELSE LET analyzed_clauses ==
                 AnalyzeSections(_split_into_clauses(txt, "split" \in faults), 0, faults)
         IN  [summary |-> _generate_summary(txt, filename, faults),
              clauses |-> [k \in 1..Len(analyzed_clauses) |->
                              [analyzed_clauses[k] EXCEPT !.id = @ + timestamp]],
              analysis_timestamp |-> timestamp,
              document_type |-> _detect_document_type(txt)]

\* faults: the fault points this call meets; timestamp: datetime.now()
analyze_document(txt, filename, faults, timestamp) ==
    IF {"split", "split_fallback"} \subseteq faults \/ "doc_type" \in faults
    THEN DegradedAnalysis(timestamp)
    ELSE [summary |-> _generate_summary(txt, filename, faults),
          clauses |-> AnalyzeSections(_split_into_clauses(txt, "split" \in faults), 0, faults),
          analysis_timestamp |-> timestamp,
          document_type |-> _detect_document_type(txt)]

----------------------------------------------------------------------------
(* RiskAnalyzer: the tables of __init__ *)

\* the terms of the categories of each dict, in the order the loops visit them
high_risk_terms ==
    << <<"un", "limited", " ", "liabilit", "y">>,
       <<"personal", " ", "liabilit", "y">>,
       <<"joint", " ", "and", " ", "several", " ", "liabilit", "y">>,
       <<"full", " ", "liabilit", "y">>,
       <<"complete", " ", "liabilit", "y">>,
       <<"absolute", " ", "liabilit", "y">>,
       <<"immediate", " ", "terminat", "ion">>,
       <<"terminat", "e", " ", "without", " ", "cause">>,
       <<"terminat", "e", " ", "at", " ", "will">>,
       <<"no", " ", "notice", " ", "terminat", "ion">>,
       <<"summary", " ", "terminat", "ion">>,
       <<"terminat", "e", " ", "for", " ", "convenience">>,
       <<"no", " ", "refund">>,
       <<"non", "-", "refund", "able">>,
       <<"liquidated", " ", "damage", "s">>,
       <<"penalty", " ", "clause">>,
       <<"forfeiture">>,
       <<"compound", " ", "interest">>,
       <<"usurious", " ", "interest">>,
       <<"personal", " ", "guarantee">>,
       <<"un", "limited", " ", "guarantee">>,
       <<"unconditional", " ", "guarantee">>,
       <<"irrevocable", " ", "commitment">>,
       <<"binding", " ", "obligation">>,
       <<"waive", " ", "jury", " ", "trial">>,
       <<"binding", " ", "arbitration">>,
       <<"no", " ", "appeal">>,
       <<"attorney", " ", "fee", "s", " ", "to", " ", "prevailing", " ", "party">>,
       <<"forum", " ", "selection">>,
       <<"uni", "late", "ral", " ", "modification">>,
       <<"sole", " ", "discretion">>,
       <<"without", " ", "consent">>,
       <<"may", " ", "change", " ", "at", " ", "any", " ", "time">>,
       <<"reserves", " ", "the", " ", "right">> >>

medium_risk_terms ==
    << <<"limited", " ", "liabilit", "y">>,
       <<"liabilit", "y", " ", "cap">>,
       <<"consequential", " ", "damage", "s", " ", "excluded">>,
       <<"terminat", "e", " ", "with", " ", "cause">>,
       <<"30", " ", "days", " ", "notice">>,
       <<"material", " ", "breach">>,
       <<"late", " ", "fee", "s">>,
       <<"interest", " ", "charge", "s">>,
       <<"partial", " ", "refund">>,
       <<"best", " ", "efforts">>,
       <<"commercially", " ", "reason", "able", " ", "efforts">>,
       <<"due", " ", "diligence">> >>

low_risk_terms ==
    << <<"mutual", " ", "liabilit", "y", " ", "limitation">>,
       <<"liabilit", "y", " ", "excluded">>,
       <<"no", " ", "liabilit", "y">>,
       <<"terminat", "e", " ", "for", " ", "convenience", " ", "with", " ", "notice">>,
       <<"mutual", " ", "terminat", "ion">>,
       <<"cure", " ", "period">>,
       <<"pro", "-", "rated", " ", "refund">>,
       <<"reason", "able", " ", "fee", "s">>,
       <<"market", " ", "rate">> >>

HighRiskTermWeightNegated == 0 - 3

\* risk_weights
HighRiskTermWeight == 3
MediumRiskTermWeight == 2
LowRiskTermWeight == -1
UnclearLanguageWeight == 2
OneSidedClauseWeight == 2
BroadScopeWeight == 1
TimePressureWeight == 1

\* base scores with termination rated as the most severe categories are
base_risk_scores_TerminationSevere(ctype) ==
    IF ctype \in {"termination", "liability", "indemnification"} THEN 7 ELSE 4

\* base_risk_scores.get(clause_type, 4)
base_risk_scores(ctype) ==
    CASE ctype = "termination" -> 6
      [] ctype = "liability" -> 7
      [] ctype = "payment" -> 5
      [] ctype = "confidentiality" -> 3
      [] ctype = "intellectual_property" -> 4
      [] ctype = "dispute_resolution" -> 5
      [] ctype = "obligations" -> 5
      [] ctype = "warranties" -> 4
      [] ctype = "indemnification" -> 7
      [] ctype = "force_majeure" -> 2
      [] ctype = "general" -> 4
      [] OTHER -> 4

----------------------------------------------------------------------------
(* RiskAnalyzer._check_additional_risk_factors *)

ambiguous_terms ==
    << <<"reason", "able">>,
       <<"appropriate">>,
       <<"satisfactory">>,
       <<"adequate">>,
       <<"fair">> >>

one_sided_indicators ==
    << <<"sole", " ", "discretion">>,
       <<"absolute", " ", "right">>,
       <<"uni", "late", "ral">>,
       <<"without", " ", "limitation">>,
       <<"at", " ", "our", " ", "option">>,
       <<"we", " ", "may">>,
       <<"company", " ", "reserves">> >>

broad_scope_terms ==
    << <<" ", "all", " ">>,
       <<" ", "any", " ">>,
       <<" ", "every", " ">>,
       <<" ", "entire", " ">>,
       <<" ", "complete", " ">>,
       <<" ", "total", " ">> >>

time_pressure_terms ==
    << <<"immediate", "ly">>,
       <<"forthwith">>,
       <<"without", " ", "delay">>,
       <<"urgently">> >>

AmbiguousThreshold == 2
BroadScopeThreshold == 3

ContainsAmbiguousLanguage == <<"Contains", " ", "ambiguous", " ", "language">>
OneSidedClause == <<"One-sided", " ", "clause favoring other party">>
UnusuallyBroadScope == <<"Unusually broad scope">>
ContainsTimePressure == <<"Contains time pressure elements">>

\* <<current_score + score_adjustment, additional_factors>>
_check_additional_risk_factors(clause_text, current_score) ==
    LET ambiguous == Len(FoundIn(ambiguous_terms, clause_text)) >= AmbiguousThreshold
        one_sided == AnyIn(one_sided_indicators, clause_text)
        broad == Len(FoundIn(broad_scope_terms, clause_text)) >= BroadScopeThreshold
        pressure == AnyIn(time_pressure_terms, clause_text)
    IN  << current_score
             + (IF ambiguous THEN UnclearLanguageWeight ELSE 0)
             + (IF one_sided THEN OneSidedClauseWeight ELSE 0)
             + (IF broad THEN BroadScopeWeight ELSE 0)
             + (IF pressure THEN TimePressureWeight ELSE 0),
           (IF ambiguous THEN <<ContainsAmbiguousLanguage>> ELSE <<>>) \o
           (IF one_sided THEN <<OneSidedClause>> ELSE <<>>) \o
           (IF broad THEN <<UnusuallyBroadScope>> ELSE <<>>) \o
           (IF pressure THEN <<ContainsTimePressure>> ELSE <<>>) >>

----------------------------------------------------------------------------
(* RiskAnalyzer._score_to_level, _analyze_clause_risk *)

_score_to_level(score) ==
    IF score >= 7 THEN "high" ELSE IF score >= 4 THEN "medium" ELSE "low"

HighTermFactor(term) == <<"High-risk term: '">> \o term \o <<"'">>
MediumTermFactor(term) == <<"Medium-risk term: '">> \o term \o <<"'">>
ProtectiveTermFactor(term) == <<"Protective term: '">> \o term \o <<"'">>

\* risk_score = max(1, min(10, risk_score))
ClampRisk(score) == Max(1, Min(10, score))

\* clause: a clause record; raised: an exception inside the try block
_analyze_clause_risk(clause, raised) ==
    IF raised
    THEN [score |-> 5, level |-> "medium", factors |-> << <<"Analysis error">> >>]
    ELSE LET clause_text == Lower(clause.content)
             high == FoundIn(high_risk_terms, clause_text)
             medium == FoundIn(medium_risk_terms, clause_text)
             low == FoundIn(low_risk_terms, clause_text)
             scored == base_risk_scores(clause.clause_type)
                         + HighRiskTermWeight * Len(high)
                         + MediumRiskTermWeight * Len(medium)
                         + LowRiskTermWeight * Len(low)
             additional == _check_additional_risk_factors(clause_text, scored)
         IN  [score |-> ClampRisk(additional[1]),
              level |-> _score_to_level(ClampRisk(additional[1])),
              factors |-> [i \in 1..Len(high) |-> HighTermFactor(high[i])] \o
                          [i \in 1..Len(medium) |-> MediumTermFactor(medium[i])] \o
                          [i \in 1..Len(low) |-> ProtectiveTermFactor(low[i])] \o
                          additional[2]]

----------------------------------------------------------------------------
(* RiskAnalyzer: the aggregation of assess_risk *)

\* An average sum/n is kept as the pair [sum, n]; avg >= k is sum >= k * n.
Avg(scores) == [sum |-> SumSeq(scores), n |-> Len(scores)]
AvgAtLeast(avg, k) == avg.sum >= k * avg.n

\* round(num / den, 1), in tenths.  A tie goes to the even tenth, as Python's
\* round does where the quotient is a binary fraction (den 1, 2, 4, 8).
RoundTenths(num, den) ==
    LET q == (10 * num) \div den
        r == (10 * num) % den
    IN  IF 2 * r > den THEN q + 1
        ELSE IF 2 * r < den THEN q
        ELSE IF q % 2 = 0 THEN q ELSE q + 1

RECURSIVE MaxSeq(_)
MaxSeq(ns) == IF Len(ns) = 1 THEN ns[1] ELSE Max(Head(ns), MaxSeq(Tail(ns)))

\* sum(1 for score in ns if score >= k)
CountAtLeast(ns, k) == Len(SelectSeq(ns, LAMBDA x : x >= k))

\* the decision on the average and the maximum alone
_determine_overall_risk_NoCount(avg_score, max_score, high_risk_count) ==
    IF AvgAtLeast(avg_score, 7) \/ max_score >= 9 THEN "high"
    ELSE IF AvgAtLeast(avg_score, 5) \/ max_score >= 7 THEN "medium"
    ELSE "low"

_determine_overall_risk(avg_score, max_score, high_risk_count) ==
    IF AvgAtLeast(avg_score, 7) \/ max_score >= 9 \/ high_risk_count >= 3 THEN "high"
    ELSE IF AvgAtLeast(avg_score, 5) \/ max_score >= 7 \/ high_risk_count >= 1 THEN "medium"
    ELSE "low"

\* clause_risk_breakdown: the clause types in first-seen order, each with the
\* scores of its clauses in clause order
RECURSIVE TypesInOrder(_, _)
TypesInOrder(clauses, seen) ==
    IF clauses = <<>> THEN <<>>
    ELSE IF Head(clauses).clause_type \in seen THEN TypesInOrder(Tail(clauses), seen)
    ELSE <<Head(clauses).clause_type>> \o
         TypesInOrder(Tail(clauses), seen \cup {Head(clauses).clause_type})

Breakdown(clauses, scores) ==
    LET types == TypesInOrder(clauses, {})
        idx(t) == SelectSeq([i \in 1..Len(clauses) |-> i],
                            LAMBDA i : clauses[i].clause_type = t)
    IN  [k \in 1..Len(types) |->
            [type |-> types[k],
             scores |-> [j \in 1..Len(idx(types[k])) |-> scores[idx(types[k])[j]]]]]

\* the parts of the summary string
_generate_risk_summary(avg_score, high_risk_count, total_clauses, clause_breakdown) ==
    [headline |-> IF AvgAtLeast(avg_score, 7) THEN "This document presents HIGH risk"
                  ELSE IF AvgAtLeast(avg_score, 5) THEN "This document presents MEDIUM risk"
                  ELSE "This document presents LOW risk",
     high_risk |-> IF high_risk_count > 0
                   THEN <<high_risk_count, total_clauses,
                          RoundTenths(100 * high_risk_count, total_clauses)>>
                   ELSE <<>>,
     highest_risk_types |->
         LET risky == SelectSeq(clause_breakdown, LAMBDA b : MaxSeq(b.scores) >= 7)
         IN  [i \in 1..Len(risky) |-> risky[i].type]]

_get_risk_area_description(ctype) ==
    CASE ctype = "liability" -> "Defines your financial responsibility if something goes wrong"
      [] ctype = "termination" -> "Controls how and when the contract can be ended"
      [] ctype = "payment" -> "Governs payment obligations and potential penalties"
      [] ctype = "indemnification" ->
           "Requires you to protect the other party from certain losses"
      [] ctype = "dispute_resolution" -> "Determines how conflicts will be resolved"
      [] ctype = "obligations" -> "Specifies what you must do under the contract"
      [] ctype = "warranties" -> "Contains promises about performance or quality"
      [] ctype = "intellectual_property" -> "Governs ownership of ideas and creative work"
      [] ctype = "confidentiality" -> "Controls sharing of sensitive information"
      [] ctype = "force_majeure" -> "Addresses what happens during extraordinary circumstances"
      [] OTHER -> "Important contractual provision"

\* list.sort(key = avg_risk_score, reverse = True): stable, descending
RECURSIVE InsertArea(_, _)
InsertArea(sorted, a) ==
    IF sorted = <<>> THEN <<a>>
    ELSE IF Head(sorted).avg_risk_score >= a.avg_risk_score
    THEN <<Head(sorted)>> \o InsertArea(Tail(sorted), a)
    ELSE <<a>> \o sorted
RECURSIVE SortAreas(_)
SortAreas(areas) ==
    IF areas = <<>> THEN <<>>
    ELSE InsertArea(SortAreas(SubSeq(areas, 1, Len(areas) - 1)), areas[Len(areas)])

MaxTopRisks == 5

\* the clause the inner loop of _identify_top_risks stops at, as a sequence of
\* none or one
HighestClause(clauses, ctype, max_score) ==
    Take(SelectSeq(clauses,
                   LAMBDA c : c.clause_type = ctype /\ c.risk_score = max_score), 1)

_identify_top_risks(clause_breakdown, clauses) ==
    LET risky == SelectSeq(clause_breakdown,
                           LAMBDA b : AvgAtLeast(Avg(b.scores), 6) \/ MaxSeq(b.scores) >= 8)
        area(b) ==
            LET highest == HighestClause(clauses, b.type, MaxSeq(b.scores))
            IN  [area |-> b.type,
                 avg_risk_score |-> RoundTenths(SumSeq(b.scores), Len(b.scores)),
                 max_risk_score |-> MaxSeq(b.scores),
                 clause_count |-> Len(b.scores),
                 description |-> _get_risk_area_description(b.type),
                 sample_clause |-> IF highest = <<>> THEN <<>> ELSE highest[1].simplified]
    IN  Take(SortAreas([i \in 1..Len(risky) |-> area(risky[i])]), MaxTopRisks)

MaxRecommendations == 10

\* any(x in factor.lower() for factor in unique_factors)
AnyFactorHas(risk_factors, x) ==
    \E i \in 1..Len(risk_factors) : Contains(Lower(risk_factors[i]), x)

_generate_recommendations(overall_risk, risk_factors, clause_breakdown) ==
    LET by_level ==
            IF overall_risk = "high"
            THEN <<"CRITICAL: This contract has significant risks. Strongly consider legal review before signing.",
                   "Negotiate key terms to reduce your exposure, especially in liability and termination clauses.">>
            ELSE IF overall_risk = "medium"
            THEN <<"CAUTION: This contract has moderate risks. Review carefully and consider legal consultation.",
                   "Focus on understanding and potentially negotiating the higher-risk clauses.">>
            ELSE <<"This contract appears to have manageable risk levels.">>
        by_factor ==
            (IF AnyFactorHas(risk_factors, <<"un", "limited", " ", "liabilit", "y">>)
             THEN <<"Consider negotiating a liability cap to limit your financial exposure.">>
             ELSE <<>>) \o
            (IF AnyFactorHas(risk_factors, <<"immediate", " ", "terminat", "ion">>)
             THEN <<"Request a cure period or notice requirement for termination clauses.">>
             ELSE <<>>) \o
            (IF AnyFactorHas(risk_factors, <<"one-sided">>)
             THEN <<"Push for more balanced terms that don't heavily favor the other party.">>
             ELSE <<>>) \o
            (IF AnyFactorHas(risk_factors, <<"ambiguous">>)
             THEN <<"Request clarification on vague or ambiguous language.">>
             ELSE <<>>)
        of_type(b) ==
            IF MaxSeq(b.scores) >= 8
            THEN CASE b.type = "payment" ->
                        <<"Review payment terms carefully - consider negotiating penalties and fees.">>
                   [] b.type = "liability" ->
                        <<"The liability clause is high-risk - consider insurance or indemnification.">>
                   [] b.type = "termination" ->
                        <<"Termination terms are unfavorable - negotiate for more balanced conditions.">>
                   [] OTHER -> <<>>
            ELSE <<>>
        by_type == Flatten([i \in 1..Len(clause_breakdown) |-> of_type(clause_breakdown[i])])
        specific == by_level \o by_factor \o by_type
    IN  Take(IF Len(specific) = 1
             THEN specific \o <<"Ensure you understand all terms before signing.",
                                "Keep copies of all documents and correspondence.">>
             ELSE specific,
             MaxRecommendations)

\* percentages in tenths of a percent
_calculate_risk_distribution(risk_scores) ==
    IF risk_scores = <<>>
    THEN [low |-> 0, medium |-> 0, high |-> 0, counts |-> <<>>]
    ELSE LET low_count == Len(SelectSeq(risk_scores, LAMBDA x : x < 4))
             medium_count == Len(SelectSeq(risk_scores, LAMBDA x : 4 <= x /\ x < 7))
             high_count == Len(SelectSeq(risk_scores, LAMBDA x : x >= 7))
             total == Len(risk_scores)
         IN  [low |-> RoundTenths(100 * low_count, total),
              medium |-> RoundTenths(100 * medium_count, total),
              high |-> RoundTenths(100 * high_count, total),
              counts |-> <<[low |-> low_count, medium |-> medium_count,
                           high |-> high_count]>>]

_get_empty_risk_assessment_NoAdvice ==
    [overall_risk |-> "unknown", risk_score |-> 0, max_risk_score |-> 0,
     high_risk_clauses |-> 0, total_clauses |-> 0,
     risk_summary |-> [headline |-> "No clauses available for risk analysis",
                       high_risk |-> <<>>, highest_risk_types |-> <<>>],
     top_risk_areas |-> <<>>, risk_factors |-> {}, clause_breakdown |-> <<>>,
     recommendations |-> <<>>,
     risk_distribution |-> [low |-> 0, medium |-> 0, high |-> 0, counts |-> <<>>]]

_get_empty_risk_assessment ==
    [overall_risk |-> "unknown",
     risk_score |-> 0,
     max_risk_score |-> 0,
     high_risk_clauses |-> 0,
     total_clauses |-> 0,
     risk_summary |-> [headline |-> "No clauses available for risk analysis",
                       high_risk |-> <<>>, highest_risk_types |-> <<>>],
     top_risk_areas |-> <<>>,
     risk_factors |-> {},
     clause_breakdown |-> <<>>,
     recommendations |-> <<"Document analysis required">>,
     risk_distribution |-> [low |-> 0, medium |-> 0, high |-> 0, counts |-> <<>>]]

\* raised: an exception inside the try block.  risk_score is in tenths;
\* risk_factors, list(set(...)) in the source, is a set.
assess_risk(clauses, raised) ==
    IF clauses = <<>> \/ raised
    THEN _get_empty_risk_assessment
    ELSE LET clause_risks == [i \in 1..Len(clauses) |-> _analyze_clause_risk(clauses[i], FALSE)]
             individual_risks == [i \in 1..Len(clauses) |-> clause_risks[i].score]
             risk_factors == Flatten([i \in 1..Len(clauses) |-> clause_risks[i].factors])
             clause_risk_breakdown == Breakdown(clauses, individual_risks)
             avg_risk_score == Avg(individual_risks)
             max_risk_score == MaxSeq(individual_risks)
             high_risk_count == CountAtLeast(individual_risks, 7)
             overall_risk ==
                 _determine_overall_risk(avg_risk_score, max_risk_score, high_risk_count)
         IN  [overall_risk |-> overall_risk,
              risk_score |-> RoundTenths(avg_risk_score.sum, avg_risk_score.n),
              max_risk_score |-> max_risk_score,
              high_risk_clauses |-> high_risk_count,
              total_clauses |-> Len(clauses),
              risk_summary |-> _generate_risk_summary(avg_risk_score, high_risk_count,
                                                      Len(clauses), clause_risk_breakdown),
              top_risk_areas |-> _identify_top_risks(clause_risk_breakdown, clauses),
              risk_factors |-> {risk_factors[i] : i \in 1..Len(risk_factors)},
              clause_breakdown |-> clause_risk_breakdown,
              recommendations |-> _generate_recommendations(overall_risk, risk_factors,
                                                            clause_risk_breakdown),
              risk_distribution |-> _calculate_risk_distribution(individual_risks)]

----------------------------------------------------------------------------
(* Documents for the segmenter: a preamble, then up to MaxRepeat sections, *)
(* each opened by the same separator.                                      *)

MaxRepeat == 22

LongA == <<Body50, " ", Body50>>
LongB == <<Body50, " ", "terminat", "ion", " ", Body50>>
Short100 == <<Body50, Body50>>

SegPreambles == {<<>>, LongB, Short100}
SegBodies == {LongA, Short100}
SegSeparators ==
    { <<"\n", "1", ".", " ">>,
      <<"\n", "(", "a", ")", " ">>,
      <<"\n", "TERMS", ":", "\n">>,
      <<"\n", "SECTION", " ", "1", "\n">>,
      <<"\n", " ", "ARTICLE", " ", "2", " ">>,
      <<"\n", "\n">>,
      <<" ">> }

RECURSIVE Repeat(_, _)
Repeat(unit, r) == IF r = 0 THEN <<>> ELSE unit \o Repeat(unit, r - 1)

Documents ==
    {h \o Repeat(sep \o b, r) :
        h \in SegPreambles, sep \in SegSeparators, b \in SegBodies, r \in 0..MaxRepeat}

NoRecord == [kind |-> "none"]

InitSeg ==
    /\ pc = "seg_start"
    /\ text \in Documents
    /\ clause_type = ""
    /\ fault = {}
    /\ sections = <<>>
    /\ record = NoRecord
    /\ calls = <<>>

\* _split_into_clauses(text) with no exception
Segment ==
    /\ pc = "seg_start"
    /\ sections' = _split_into_clauses(text, FALSE)
    /\ pc' = "seg_done"
    /\ UNCHANGED <<text, clause_type, fault, record, calls>>

\* _split_into_clauses(text) with an exception inside the try block
SegmentRaises ==
    /\ pc = "seg_start"
    /\ fault' = {"split"}
    /\ sections' = _split_into_clauses(text, TRUE)
    /\ pc' = "seg_done"
    /\ UNCHANGED <<text, clause_type, record, calls>>

NextSeg == Segment \/ SegmentRaises

SpecSeg == InitSeg /\ [][NextSeg]_vars

----------------------------------------------------------------------------
(* Clauses for the classifier and the two scorers: up to MaxPhrases phrases *)
(* joined by single spaces, scored under each of a few categories.          *)

MaxPhrases == 2

ScenarioClause ==
    <<"The", " ", "Company", " ", "may", " ", "terminat", "e", " ", "this", " ",
      "agreement", " ", "immediate", "ly", " ", "without", " ", "notice", " ", "for", " ",
      "any", " ", "reason", ",", " ", "at", " ", "Company", "'", "s", " ", "sole", " ",
      "discretion", ".">>

\* the clause of the notice scenario: termination by either party upon 30
\* days written notice
NoticeScenarioClause ==
    <<"Either", " ", "party", " ", "may", " ", "terminat", "e", " ", "this", " ",
      "Agreement", " ", "upon", " ", "30", " ", "days", " ", "written", " ", "notice", " ",
      "to", " ", "the", " ", "other", " ", "party", ".">>

Phrases ==
    { ScenarioClause,
      NoticeScenarioClause,
      <<"immediate", " ", "terminat", "ion", " ", "without", " ", "cause">>,
      <<"sole", " ", "discretion">>,
      <<"un", "limited", " ", "liabilit", "y">>,
      <<"limited", " ", "liabilit", "y">>,
      <<"no", " ", "liabilit", "y", " ", "excluded">>,
      <<"cure", " ", "period">>,
      <<"late", " ", "fee", "s">>,
      <<"penalty", " ", "clause">>,
      <<"fair", " ", "and", " ", "adequate">>,
      <<"shall">>,
      <<"Either", " ", "party", " ", "may", " ", "end", " ", "this", " ", "Agreement">>,
      <<"we", " ", "may">>,
      <<"confidential">>,
      <<"court">>,
      <<"patent">> }

RECURSIVE JoinPhrases(_)
JoinPhrases(ps) ==
    IF ps = <<>> THEN <<>>
    ELSE IF Len(ps) = 1 THEN ps[1]
    ELSE ps[1] \o <<" ">> \o JoinPhrases(Tail(ps))

ClauseTexts ==
    UNION {{JoinPhrases(ps) : ps \in [1..n -> Phrases]} : n \in 0..MaxPhrases}

\* categories a scorer is called with: known ones, one known to the
\* RiskAnalyzer only, and one known to neither
Categories ==
    {"termination", "liability", "payment", "confidentiality", "force_majeure", "other"}

InitClause ==
    /\ pc = "clause_start"
    /\ text \in ClauseTexts
    /\ clause_type \in Categories
    /\ fault = {}
    /\ sections = <<>>
    /\ record = NoRecord
    /\ calls = <<>>

\* _identify_clause_type(text)
IdentifyClauseType ==
    /\ pc = "clause_start"
    /\ record' = [kind |-> "type", clause_type |-> _identify_clause_type(text)]
    /\ pc' = "identified"
    /\ UNCHANGED <<text, clause_type, fault, sections, calls>>

\* _assess_clause_risk(text, clause_type)
AssessClauseRisk ==
    /\ pc = "clause_start"
    /\ record' = [kind |-> "assessment", risk |-> _assess_clause_risk(text, clause_type)]
    /\ pc' = "assessed"
    /\ UNCHANGED <<text, clause_type, fault, sections, calls>>

\* _analyze_clause(text, 0) with no exception
AnalyzeClause ==
    /\ pc = "clause_start"
    /\ record' = [kind |-> "clause", clause |-> _analyze_clause(text, 0, FALSE)]
    /\ pc' = "analyzed"
    /\ UNCHANGED <<text, clause_type, fault, sections, calls>>

\* _analyze_clause(text, 0) with an exception inside the try block
AnalyzeClauseRaises ==
    /\ pc = "clause_start"
    /\ fault' = {"clause_0"}
    /\ record' = [kind |-> "clause", clause |-> _analyze_clause(text, 0, TRUE)]
    /\ pc' = "analyzed"
    /\ UNCHANGED <<text, clause_type, sections, calls>>

\* _analyze_clause_risk on the record _analyze_clause returned
AnalyzeClauseRisk ==
    /\ pc = "analyzed"
    /\ record' = [kind |-> "clause_risk", clause |-> record.clause,
                  risk |-> _analyze_clause_risk(record.clause, FALSE)]
    /\ pc' = "risk_analyzed"
    /\ UNCHANGED <<text, clause_type, fault, sections, calls>>

\* _analyze_clause_risk with an exception inside the try block
AnalyzeClauseRiskRaises ==
    /\ pc = "analyzed"
    /\ fault' = fault \cup {"clause_risk"}
    /\ record' = [kind |-> "clause_risk", clause |-> record.clause,
                  risk |-> _analyze_clause_risk(record.clause, TRUE)]
    /\ pc' = "risk_analyzed"
    /\ UNCHANGED <<text, clause_type, sections, calls>>

\* _analyze_clause_risk on a clause of any category
AnalyzeRiskAs ==
    /\ pc = "clause_start"
    /\ record' = [kind |-> "risk",
                  risk |-> _analyze_clause_risk([content |-> text,
                                                 clause_type |-> clause_type], FALSE)]
    /\ pc' = "risk_scored"
    /\ UNCHANGED <<text, clause_type, fault, sections, calls>>

\* no term of the lists of _assess_clause_risk occurs in txt
NoRiskKeyword(txt) ==
    ~AnyIn(high_risk_keywords, Lower(txt)) /\ ~AnyIn(medium_risk_keywords, Lower(txt))
\* no term of the lists of _analyze_clause_risk occurs in txt
NoRiskTerm(txt) ==
    /\ ~AnyIn(high_risk_terms, Lower(txt))
    /\ ~AnyIn(medium_risk_terms, Lower(txt))
    /\ ~AnyIn(low_risk_terms, Lower(txt))

Glue == {<<>>, <<" ">>}

\* a clause free of risk keywords is assessed again with one high-risk
\* keyword appended
AppendHighRiskKeyword ==
    /\ pc = "assessed"
    /\ NoRiskKeyword(text)
    /\ \E k \in 1..Len(high_risk_keywords), glue \in Glue :
         /\ text' = text \o glue \o high_risk_keywords[k]
         /\ record' = [kind |-> "reassessment", before |-> record.risk,
                       risk |-> _assess_clause_risk(text', clause_type)]
    /\ pc' = "reassessed"
    /\ UNCHANGED <<clause_type, fault, sections, calls>>

\* a clause free of risk terms is scored again with one high-risk term
\* appended
AppendHighRiskTerm ==
    /\ pc = "risk_scored"
    /\ NoRiskTerm(text)
    /\ \E k \in 1..Len(high_risk_terms), glue \in Glue :
         /\ text' = text \o glue \o high_risk_terms[k]
         /\ record' = [kind |-> "risk_again", before |-> record.risk,
                       risk |-> _analyze_clause_risk([content |-> text',
                                                      clause_type |-> clause_type], FALSE)]
    /\ pc' = "risk_rescored"
    /\ UNCHANGED <<clause_type, fault, sections, calls>>

NextClause ==
    \/ IdentifyClauseType
    \/ AssessClauseRisk
    \/ AnalyzeClause
    \/ AnalyzeClauseRaises
    \/ AnalyzeClauseRisk
    \/ AnalyzeClauseRiskRaises
    \/ AnalyzeRiskAs
    \/ AppendHighRiskKeyword
    \/ AppendHighRiskTerm

SpecClause == InitClause /\ [][NextClause]_vars

----------------------------------------------------------------------------
(* Documents for analyze_document: up to MaxSections numbered sections, and *)
(* up to MaxCalls calls, some of them on the same document.                 *)

MaxSections == 2
MaxCalls == 3

Section(phrase) == <<Body50, " ">> \o phrase \o <<" ", Body50>>

\* a section longer than 50 characters and no longer than 100
ShortSection == <<Body50, " ", "service", " ", "agreement">>

SectionTexts ==
    { Section(ScenarioClause),
      Section(<<"sole", " ", "discretion">>),
      ShortSection }

RECURSIVE JoinSections(_)
JoinSections(secs) ==
    IF secs = <<>> THEN <<>>
    ELSE IF Len(secs) = 1 THEN secs[1]
    ELSE secs[1] \o <<"\n", "\n", "1", ".", " ">> \o JoinSections(Tail(secs))

AnalysisDocuments ==
    UNION {{JoinSections(secs) : secs \in [1..n -> SectionTexts]} : n \in 0..MaxSections}

OtherDocument == Section(<<"no", " ", "liabilit", "y", " ", "excluded">>)

Filename == "contract.pdf"

\* the fault points one document can meet: none, one, or the split and its
\* fallback together
FaultSets ==
    {{}} \cup {{f} : f \in FaultPoints \ {"split_fallback"}}
         \cup {{"split", "split_fallback"}}

InitAnalysis ==
    /\ pc = "ready"
    /\ text \in AnalysisDocuments
    /\ clause_type = ""
    /\ fault \in FaultSets
    /\ sections = <<>>
    /\ record = NoRecord
    /\ calls = <<>>

\* analyze_document(txt, filename), then assess_risk on its clauses, as
\* upload_document calls them; datetime.now() is the number of earlier calls
Analyzed(txt, filename, faults) ==
    LET analysis_result == analyze_document(txt, filename, faults, Len(calls))
    IN  [kind |-> "analysis",
         text |-> txt,
         filename |-> filename,
         faults |-> faults,
         analysis_result |-> analysis_result,
         risk_assessment |-> assess_risk(analysis_result.clauses, "assess" \in faults)]

\* the document in hand is analyzed, meeting its fault points
AnalyzeDocument ==
    /\ pc = "ready"
    /\ Len(calls) < MaxCalls
    /\ record' = Analyzed(text, Filename, fault)
    /\ calls' = Append(calls, record')
    /\ UNCHANGED <<pc, text, clause_type, fault, sections>>

\* another document is analyzed in between
AnalyzeOtherDocument ==
    /\ pc = "ready"
    /\ Len(calls) < MaxCalls
    /\ record' = Analyzed(OtherDocument, "other.pdf", {})
    /\ calls' = Append(calls, record')
    /\ UNCHANGED <<pc, text, clause_type, fault, sections>>

NextAnalysis == AnalyzeDocument \/ AnalyzeOtherDocument

SpecAnalysis == InitAnalysis /\ [][NextAnalysis]_vars

----------------------------------------------------------------------------
(* Characters.  The entity extractor's patterns count and class single     *)
(* characters, so it reads a text character by character: Spell gives the  *)
(* characters of an atom, Joined the str a run of characters makes.        *)

Spell(a) == [i \in 1..Len(a) |-> SubSeq(a, i, i)]
Spelled(s) == Flatten([i \in 1..Len(s) |-> Spell(s[i])])
RECURSIVE Joined(_)
Joined(cs) == IF cs = <<>> THEN "" ELSE Head(cs) \o Joined(Tail(cs))

\* the characters from U+0020 to U+007E, in code point order (the grave
\* accent U+0060, which no text of the model holds, is named, not written)
PrintableChars ==
    <<" ", "!", "\"", "#", "$", "%", "&", "'", "(", ")", "*", "+", ",",
      "-", ".", "/", "0", "1", "2", "3", "4", "5", "6", "7", "8", "9", ":",
      ";", "<", "=", ">", "?", "@", "A", "B", "C", "D", "E", "F", "G", "H",
      "I", "J", "K", "L", "M", "N", "O", "P", "Q", "R", "S", "T", "U", "V",
      "W", "X", "Y", "Z", "[", "\\", "]", "^", "_", "U+0060", "a", "b", "c",
      "d", "e", "f", "g", "h", "i", "j", "k", "l", "m", "n", "o", "p", "q",
      "r", "s", "t", "u", "v", "w", "x", "y", "z", "{", "|", "}", "~">>
\* the characters a text is made of
AllChars == {"\t", "\n"} \cup {PrintableChars[k] : k \in 1..Len(PrintableChars)}
\* ord(c); "\t" is U+0009, "\n" is U+000A
OrdOf ==
    [c \in AllChars |->
        IF c = "\t" THEN 9
        ELSE IF c = "\n" THEN 10
        ELSE 31 + CHOOSE k \in 1..Len(PrintableChars) : PrintableChars[k] = c]
Ord(c) == OrdOf[c]

UpperChars == {PrintableChars[k] : k \in 34..59}
LowerChars == {PrintableChars[k] : k \in 66..91}
DigitChars == {PrintableChars[k] : k \in 17..26}
\* \w and \s
WordChars == UpperChars \cup LowerChars \cup DigitChars \cup {"_"}
SpaceChars == {" ", "\t", "\n"}

\* c.lower()
LowerOf == [c \in AllChars |-> IF c \in UpperChars THEN PrintableChars[Ord(c) + 1] ELSE c]
LowerChar(c) == LowerOf[c]
\* s.lower()
LowerStr(s) == [i \in 1..Len(s) |-> LowerChar(s[i])]

----------------------------------------------------------------------------
(* Regular expressions over characters.  A pattern is a sequence of        *)
(* elements: a literal, a character class repeated lo..hi times (hi = -1:  *)
(* no upper limit), greedy or lazy, a \b, or a group of alternatives tried *)
(* in order.  ic is re.IGNORECASE.                                         *)

Str(w) == [kind |-> "str", chars |-> Spell(w)]
Set(cls, lo, hi) ==
    [kind |-> "set", cls |-> cls, neg |-> FALSE, lo |-> lo, hi |-> hi, lazy |-> FALSE]
NotSet(cls, lo, hi) ==
    [kind |-> "set", cls |-> cls, neg |-> TRUE, lo |-> lo, hi |-> hi, lazy |-> FALSE]
Lazy(e) == [e EXCEPT !.lazy = TRUE]
Alt(alts) == [kind |-> "alt", alts |-> alts]
Maybe(pat) == Alt(<<pat, <<>>>>)
WordBoundary == [kind |-> "b"]
\* the opening or closing parenthesis of a group
Mark == [kind |-> "mark"]
\* (?:w1|w2|...) for literal alternatives
Words(ws) == Alt([k \in 1..Len(ws) |-> <<Str(ws[k])>>])

\* c.upper()
UpperOf == [c \in AllChars |-> IF c \in LowerChars THEN PrintableChars[Ord(c) - 63] ELSE c]
UpperChar(c) == UpperOf[c]

\* the class of e holds c
Hit(e, c, ic) ==
    (c \in e.cls \/ (ic /\ (LowerChar(c) \in e.cls \/ UpperChar(c) \in e.cls))) # e.neg

\* the literal cs stands at position j of s
StrAt(cs, s, j, ic) ==
    /\ j + Len(cs) - 1 <= Len(s)
    /\ \A k \in 1..Len(cs) :
         IF ic THEN LowerChar(s[j + k - 1]) = LowerChar(cs[k]) ELSE s[j + k - 1] = cs[k]

\* \b at position j: exactly one of the characters before and at j is a \w
BoundaryAt(s, j) ==
    (j > 1 /\ s[j - 1] \in WordChars) # (j <= Len(s) /\ s[j] \in WordChars)

\* the length of the longest run of characters of the class of e from
\* position j, within e.hi characters
ClassRun(e, s, j, ic) ==
    LET last == IF e.hi = -1 THEN Len(s) ELSE Min(Len(s), j + e.hi - 1)
        stop == CHOOSE k \in j..(last + 1) :
                    /\ k = last + 1 \/ ~Hit(e, s[k], ic)
                    /\ \A m \in j..(k - 1) : Hit(e, s[m], ic)
    IN  stop - j

\* the first of the results rs[0], rs[1], ... that is a match, or <<>>
FirstMatching(rs) ==
    IF \A d \in DOMAIN rs : rs[d] = <<>>
    THEN <<>>
    ELSE rs[CHOOSE d \in DOMAIN rs :
                rs[d] # <<>> /\ \A d2 \in DOMAIN rs : d2 < d => rs[d2] = <<>>]

\* the match of pat at position j of s: <<>> when there is none, else the
\* position after the match followed by the positions of the marks of pat.
\* A greedy class tries its longest run first, a lazy one its shortest.
RECURSIVE ReRun(_, _, _, _)
RECURSIVE ReAlts(_, _, _, _, _, _)
ReAlts(alts, k, rest, s, j, ic) ==
    IF k > Len(alts) THEN <<>>
    ELSE LET r == ReRun(alts[k] \o rest, s, j, ic)
         IN  IF r # <<>> THEN r ELSE ReAlts(alts, k + 1, rest, s, j, ic)
ReRun(pat, s, j, ic) ==
    IF pat = <<>> THEN <<j>>
    ELSE LET e == Head(pat)
             rest == Tail(pat)
         IN  CASE e.kind = "str" ->
                    IF StrAt(e.chars, s, j, ic)
                    THEN ReRun(rest, s, j + Len(e.chars), ic) ELSE <<>>
               [] e.kind = "b" ->
                    IF BoundaryAt(s, j) THEN ReRun(rest, s, j, ic) ELSE <<>>
               [] e.kind = "mark" ->
                    LET r == ReRun(rest, s, j, ic)
                    IN  IF r = <<>> THEN <<>> ELSE <<r[1], j>> \o Tail(r)
               [] e.kind = "alt" -> ReAlts(e.alts, 1, rest, s, j, ic)
               [] e.kind = "set" ->
                    LET max == ClassRun(e, s, j, ic)
                    IN  IF max < e.lo THEN <<>>
                        ELSE FirstMatching(
                                 [d \in 0..(max - e.lo) |->
                                     ReRun(rest, s,
                                           j + (IF e.lazy THEN e.lo + d ELSE max - d), ic)])

\* the position after the match of pat at position j of s, or 0
ReMatch(pat, s, j, ic) ==
    LET r == ReRun(pat, s, j, ic) IN IF r = <<>> THEN 0 ELSE r[1]

\* the leftmost matches among runs, the match at each position of s, each
\* search starting where the last match ended
RECURSIVE Leftmost(_, _)
Leftmost(runs, i) ==
    IF \A k \in i..Len(runs) : runs[k] = <<>>
    THEN <<>>
    ELSE LET k == CHOOSE k \in i..Len(runs) :
                      runs[k] # <<>> /\ \A m \in i..(k - 1) : runs[m] = <<>>
         IN  <<<<k>> \o runs[k]>>
               \o Leftmost(runs, IF runs[k][1] = k THEN k + 1 ELSE runs[k][1])
Matches(pat, s, ic) == Leftmost([k \in 1..Len(s) |-> ReRun(pat, s, k, ic)], 1)

\* re.findall(pat, s) for a pattern without a group, or whose one group is
\* the whole match
FindAll(pat, s, ic) ==
    LET ms == Matches(pat, s, ic) IN [n \in 1..Len(ms) |-> SubSeq(s, ms[n][1], ms[n][2] - 1)]

\* the matches of several patterns, one pattern after the other
FindEach(pats, s, ic) == Flatten([k \in 1..Len(pats) |-> FindAll(pats[k], s, ic)])

----------------------------------------------------------------------------
(* EntityExtractor._clean_and_deduplicate.  An item is a run of characters. *)

MinItemLen == 3
MaxItemLen == 200
MaxItems == 10

\* item.strip()
RECURSIVE LStripChars(_)
LStripChars(s) == IF s # <<>> /\ Head(s) \in SpaceChars THEN LStripChars(Tail(s)) ELSE s
RECURSIVE RStripChars(_)
RStripChars(s) ==
    IF s # <<>> /\ s[Len(s)] \in SpaceChars
    THEN RStripChars(SubSeq(s, 1, Len(s) - 1)) ELSE s
StripChars(s) == RStripChars(LStripChars(s))

\* re.sub(r'\s+', ' ', s)
RECURSIVE CollapseSpace(_)
CollapseSpace(s) ==
    IF s = <<>> THEN <<>>
    ELSE IF Head(s) \in SpaceChars
         THEN <<" ">> \o CollapseSpace(LStripChars(s))
         ELSE <<Head(s)>> \o CollapseSpace(Tail(s))

\* cleaned_item
CleanItem(item) == CollapseSpace(StripChars(item))

\* a < b for two str: the code points at the first difference, or the
\* shorter of a and its extension
RECURSIVE StrLess(_, _)
StrLess(a, b) ==
    IF b = <<>> THEN FALSE
    ELSE IF a = <<>> THEN TRUE
    ELSE IF Head(a) = Head(b) THEN StrLess(Tail(a), Tail(b))
    ELSE Ord(Head(a)) < Ord(Head(b))

\* list.sort() on a list of different str
RECURSIVE InsertStr(_, _)
InsertStr(x, sorted) ==
    IF sorted = <<>> THEN <<x>>
    ELSE IF StrLess(x, Head(sorted)) THEN <<x>> \o sorted
    ELSE <<Head(sorted)>> \o InsertStr(x, Tail(sorted))
RECURSIVE SortStrs(_)
SortStrs(items) ==
    IF items = <<>> THEN <<>> ELSE InsertStr(Head(items), SortStrs(Tail(items)))

\* the loop over cleaned: an item is kept unless its lower() was seen
RECURSIVE Deduplicate(_, _)
Deduplicate(cleaned, seen) ==
    IF cleaned = <<>> THEN <<>>
    ELSE IF LowerStr(Head(cleaned)) \in seen
         THEN Deduplicate(Tail(cleaned), seen)
         ELSE <<Head(cleaned)>>
                \o Deduplicate(Tail(cleaned), seen \cup {LowerStr(Head(cleaned))})

\* _clean_and_deduplicate without the final slice
CleanedSortedItems(items) ==
    LET all == [i \in 1..Len(items) |-> CleanItem(items[i])]
        cleaned == SelectSeq(all, LAMBDA c : MinItemLen <= Len(c) /\ Len(c) <= MaxItemLen)
    IN  SortStrs(Deduplicate(cleaned, {}))

_clean_and_deduplicate_Uncapped(items) == CleanedSortedItems(items)

_clean_and_deduplicate(items) ==
    IF items = <<>> THEN <<>> ELSE Take(CleanedSortedItems(items), MaxItems)

\* list(set(items)): the set's str in an order of the interpreter's choosing.
\* Only the spelling met first among items equal in lower() after cleaning
\* shows in the result of _clean_and_deduplicate, so the orders are those
\* that put one choice of first spellings ahead of the rest.
RECURSIVE FirstSpellings(_)
FirstSpellings(S) ==
    IF S = {} THEN {{}}
    ELSE LET x == CHOOSE x \in S : TRUE
             same == {y \in S : LowerStr(CleanItem(y)) = LowerStr(CleanItem(x))}
         IN  {F \cup {y} : F \in FirstSpellings(S \ same), y \in same}
RECURSIVE SetToSeq(_)
SetToSeq(S) ==
    IF S = {} THEN <<>>
    ELSE LET x == CHOOSE x \in S : \A y \in S : x = y \/ StrLess(x, y)
         IN  <<x>> \o SetToSeq(S \ {x})
ListsOfSet(S) == {SetToSeq(F) \o SetToSeq(S \ F) : F \in FirstSpellings(S)}

----------------------------------------------------------------------------
(* EntityExtractor.extract_monetary_amounts *)

\* [\d,]+(?:\.\d{2})?
AmountDigits ==
    <<Set(DigitChars \cup {","}, 1, -1), Maybe(<<Str("."), Set(DigitChars, 2, 2)>>)>>
\* (?:dollars?|rupees?|euros?)
CurrencyWords ==
    Alt(<< <<Str("dollar"), Maybe(<<Str("s")>>)>>,
           <<Str("rupee"), Maybe(<<Str("s")>>)>>,
           <<Str("euro"), Maybe(<<Str("s")>>)>> >>)

\* patterns['money']
money_patterns ==
    << <<Str("$")>> \o AmountDigits,
       <<Str("USD"), Set(SpaceChars, 0, -1)>> \o AmountDigits,
       <<Str("INR"), Set(SpaceChars, 0, -1)>> \o AmountDigits,
       <<Str("EUR"), Set(SpaceChars, 0, -1)>> \o AmountDigits,
       <<WordBoundary, CurrencyWords, Set(SpaceChars, 0, -1)>> \o AmountDigits
          \o <<WordBoundary>> >>

written_pattern ==
    <<WordBoundary,
      Words(<<"one", "two", "three", "four", "five", "six", "seven", "eight", "nine",
              "ten", "hundred", "thousand", "million", "billion">>),
      Set(SpaceChars, 1, -1), CurrencyWords, WordBoundary>>

\* the str of a list, as a set
Range(items) == {items[i] : i \in 1..Len(items)}

\* text: the characters of the document; the result before list(set(...))
\* puts it in some order
extract_monetary_amounts(txt) ==
    Range(FindEach(money_patterns, txt, TRUE) \o FindAll(written_pattern, txt, TRUE))

----------------------------------------------------------------------------
(* EntityExtractor.extract_parties, extract_dates *)

\* re.findall for a pattern with two groups, each between two marks: the
\* groups of every match, one after the other
FindGroups(pat, s, ic) ==
    LET ms == Matches(pat, s, ic)
    IN  Flatten([n \in 1..Len(ms) |->
                    <<SubSeq(s, ms[n][3], ms[n][4] - 1), SubSeq(s, ms[n][5], ms[n][6] - 1)>>])

NotCommaOrNewline(lo, hi) == NotSet({",", "\n"}, lo, hi)

\* between\s+([^,\n]+?)\s+(?:and|&)\s+([^,\n]+?)(?:\s|,|\.)
between_pattern ==
    <<Str("between"), Set(SpaceChars, 1, -1),
      Mark, Lazy(NotCommaOrNewline(1, -1)), Mark,
      Set(SpaceChars, 1, -1), Words(<<"and", "&">>), Set(SpaceChars, 1, -1),
      Mark, Lazy(NotCommaOrNewline(1, -1)), Mark,
      Set(SpaceChars \cup {",", "."}, 1, 1)>>

\* entity_indicators['company']
company_indicators ==
    <<"LLC", "Inc", "Corp", "Ltd", "Company", "Corporation", "Limited", "Partnership">>
\* \b([A-Z][^,\n]*?{indicator}[^,\n]*?)\b
company_pattern(indicator) ==
    <<WordBoundary, Set(UpperChars, 1, 1), Lazy(NotCommaOrNewline(0, -1)),
      Str(indicator), Lazy(NotCommaOrNewline(0, -1)), WordBoundary>>

\* [A-Z][a-z]+
CapitalisedWord == <<Set(UpperChars, 1, 1), Set(LowerChars, 1, -1)>>
\* \b([A-Z][a-z]+ [A-Z][a-z]+(?:\s+[A-Z][a-z]+)?)\b
formal_pattern ==
    <<WordBoundary>> \o CapitalisedWord \o <<Str(" ")>> \o CapitalisedWord
      \o <<Maybe(<<Set(SpaceChars, 1, -1)>> \o CapitalisedWord), WordBoundary>>

StripEach(items) == [i \in 1..Len(items) |-> StripChars(items[i])]

\* ents: the texts of the PERSON and ORG entities spaCy names, none when the
\* rule-based extraction is the primary method
extract_parties(txt, ents) ==
    LET parties ==
            StripEach(ents)
              \o StripEach(FindGroups(between_pattern, txt, TRUE))
              \o StripEach(FindEach([k \in 1..Len(company_indicators) |->
                                        company_pattern(company_indicators[k])],
                                    txt, FALSE))
              \o FindAll(formal_pattern, txt, FALSE)
    IN  {p \in Range(parties) : Len(p) > 2 /\ Len(p) < 100}

Months ==
    <<"January", "February", "March", "April", "May", "June", "July", "August",
      "September", "October", "November", "December">>
DateSeparator == Set({"/", "-"}, 1, 1)
\* (?:days?|weeks?|months?|years?)
TimeUnits ==
    Alt(<< <<Str("day"), Maybe(<<Str("s")>>)>>,
           <<Str("week"), Maybe(<<Str("s")>>)>>,
           <<Str("month"), Maybe(<<Str("s")>>)>>,
           <<Str("year"), Maybe(<<Str("s")>>)>> >>)

\* patterns['dates']
date_patterns ==
    << <<WordBoundary, Set(DigitChars, 1, 2), DateSeparator, Set(DigitChars, 1, 2),
         DateSeparator, Set(DigitChars, 2, 4), WordBoundary>>,
       <<WordBoundary, Set(DigitChars, 4, 4), DateSeparator, Set(DigitChars, 1, 2),
         DateSeparator, Set(DigitChars, 1, 2), WordBoundary>>,
       <<WordBoundary, Words(Months), Set(SpaceChars, 1, -1), Set(DigitChars, 1, 2),
         Maybe(<<Str(",")>>), Set(SpaceChars, 1, -1), Set(DigitChars, 4, 4),
         WordBoundary>>,
       <<WordBoundary, Set(DigitChars, 1, 2), Maybe(<<Words(<<"st", "nd", "rd", "th">>)>>),
         Set(SpaceChars, 1, -1), Words(Months), Set(SpaceChars, 1, -1),
         Set(DigitChars, 4, 4), WordBoundary>> >>

relative_patterns ==
    << <<WordBoundary, Words(<<"within", "after", "before">>), Set(SpaceChars, 1, -1),
         Set(DigitChars, 1, -1), Set(SpaceChars, 1, -1), TimeUnits, WordBoundary>>,
       <<WordBoundary, Set(DigitChars, 1, -1), Set(SpaceChars, 1, -1), TimeUnits,
         Set(SpaceChars, 1, -1), Words(<<"from", "after", "before">>), WordBoundary>> >>

extract_dates(txt) ==
    Range(FindEach(date_patterns, txt, TRUE) \o FindEach(relative_patterns, txt, TRUE))

----------------------------------------------------------------------------
(* EntityExtractor.extract_obligations, extract_penalties,                  *)
(* extract_termination_conditions                                           *)

\* (?:w1|w2|...)\s+[^.]{10,100}
PhraseAndContext(ws) == <<Words(ws), Set(SpaceChars, 1, -1), NotSet({"."}, 10, 100)>>

\* patterns['obligations']
obligation_patterns ==
    <<PhraseAndContext(<<"shall", "must", "will", "required to", "obligated to",
                         "agrees to">>),
      PhraseAndContext(<<"responsible for", "liable for", "duty to">>)>>

obligation_keywords ==
    <<"shall provide", "must deliver", "required to submit",
      "responsible for maintaining", "agrees to perform",
      "undertakes to", "commits to", "promises to">>
\* rf'{re.escape(keyword)}\s+[^.{{50,150}}]': the braces end up inside the
\* class, which stands for one character
obligation_keyword_pattern(keyword) ==
    <<Str(keyword), Set(SpaceChars, 1, -1),
      NotSet({".", "{", "5", "0", ",", "1", "}"}, 1, 1)>>

MinContextLen == 10
LongerThanContext(items) == {o \in Range(items) : Len(o) > MinContextLen}

extract_obligations(txt) ==
    LongerThanContext(
        StripEach(FindEach(obligation_patterns, txt, TRUE))
          \o StripEach(FindEach([k \in 1..Len(obligation_keywords) |->
                                    obligation_keyword_pattern(obligation_keywords[k])],
                                txt, TRUE)))

\* term.lower() in text.lower()
ContainsStr(s, term) ==
    \E i \in 1..(Len(s) - Len(term) + 1) : StrAt(Spell(term), s, i, TRUE)

\* rf'[^.]*{re.escape(term)}[^.]*'
sentence_pattern(term) == <<NotSet({"."}, 0, -1), Str(term), NotSet({"."}, 0, -1)>>
\* the sentences around the terms the text holds
Sentences(terms, txt) ==
    Flatten([k \in 1..Len(terms) |->
                IF ContainsStr(txt, terms[k])
                THEN StripEach(FindAll(sentence_pattern(terms[k]), txt, TRUE))
                ELSE <<>>])

\* patterns['penalties']
penalty_patterns ==
    <<PhraseAndContext(<<"penalty", "fine", "liquidated damages", "late fee">>),
      PhraseAndContext(<<"breach", "default", "violation">>)>>
penalty_terms ==
    <<"late fee", "interest charge", "liquidated damages",
      "penalty clause", "forfeiture", "termination for cause">>

extract_penalties(txt) ==
    LongerThanContext(StripEach(FindEach(penalty_patterns, txt, TRUE))
                        \o Sentences(penalty_terms, txt))

\* patterns['termination_conditions']
termination_patterns ==
    <<PhraseAndContext(<<"terminate", "end", "cancel", "expire">>),
      <<Words(<<"upon", "after", "within">>), Set(SpaceChars, 1, -1),
        Set(DigitChars, 1, -1), Set(SpaceChars, 1, -1), Str("day"), Maybe(<<Str("s")>>),
        Set(SpaceChars, 1, -1), Str("notice")>> >>
termination_triggers ==
    <<"material breach", "failure to pay", "insolvency",
      "bankruptcy", "change of control", "mutual agreement">>

extract_termination_conditions(txt) ==
    LongerThanContext(StripEach(FindEach(termination_patterns, txt, TRUE))
                        \o Sentences(termination_triggers, txt))

----------------------------------------------------------------------------
(* EntityExtractor.extract_addresses, extract_emails, extract_phone_numbers, *)
(* extract_percentages                                                       *)

\* '|'.join(entity_indicators['address']): the dot of an abbreviation is the
\* pattern's any-character
AddressIndicators ==
    Alt(<< <<Str("Street")>>, <<Str("St"), NotSet({"\n"}, 1, 1)>>,
           <<Str("Avenue")>>, <<Str("Ave"), NotSet({"\n"}, 1, 1)>>,
           <<Str("Road")>>, <<Str("Rd"), NotSet({"\n"}, 1, 1)>>,
           <<Str("Boulevard")>>, <<Str("Blvd"), NotSet({"\n"}, 1, 1)>> >>)
\* \d+\s+[A-Z][^,\n]*?(?:Street|St.|...)[^,\n]*
address_pattern ==
    <<Set(DigitChars, 1, -1), Set(SpaceChars, 1, -1), Set(UpperChars, 1, 1),
      Lazy(NotCommaOrNewline(0, -1)), AddressIndicators, NotCommaOrNewline(0, -1)>>
\* [A-Z][a-z]+,\s*[A-Z]{2}\s*\d{5}(?:-\d{4})?
city_state_pattern ==
    CapitalisedWord
      \o <<Str(","), Set(SpaceChars, 0, -1), Set(UpperChars, 2, 2), Set(SpaceChars, 0, -1),
           Set(DigitChars, 5, 5), Maybe(<<Str("-"), Set(DigitChars, 4, 4)>>)>>

extract_addresses(txt) ==
    Range(StripEach(FindAll(address_pattern, txt, FALSE))
            \o FindAll(city_state_pattern, txt, FALSE))

AlphaNumChars == UpperChars \cup LowerChars \cup DigitChars
\* \b[A-Za-z0-9._%+-]+@[A-Za-z0-9.-]+\.[A-Z|a-z]{2,}\b
email_pattern ==
    <<WordBoundary, Set(AlphaNumChars \cup {".", "_", "%", "+", "-"}, 1, -1), Str("@"),
      Set(AlphaNumChars \cup {".", "-"}, 1, -1), Str("."),
      Set(UpperChars \cup LowerChars \cup {"|"}, 2, -1), WordBoundary>>

extract_emails(txt) == Range(FindAll(email_pattern, txt, FALSE))

\* [-.\s]?
PhoneSeparator == Set({"-", "."} \cup SpaceChars, 0, 1)
phone_patterns ==
    << <<Maybe(<<Str("(")>>), Set(DigitChars, 3, 3), Maybe(<<Str(")")>>), PhoneSeparator,
         Set(DigitChars, 3, 3), PhoneSeparator, Set(DigitChars, 4, 4)>>,
       <<Str("+"), Set(DigitChars, 1, 3), PhoneSeparator, Set(DigitChars, 3, 4),
         PhoneSeparator, Set(DigitChars, 3, 4), PhoneSeparator, Set(DigitChars, 3, 4)>>,
       <<WordBoundary, Set(DigitChars, 10, 10), WordBoundary>> >>

extract_phone_numbers(txt) == Range(FindEach(phone_patterns, txt, FALSE))

\* \d+(?:\.\d+)?
Number == <<Set(DigitChars, 1, -1), Maybe(<<Str("."), Set(DigitChars, 1, -1)>>)>>
\* patterns['percentages']
percentage_patterns ==
    << <<WordBoundary>> \o Number \o <<Str("%"), WordBoundary>>,
       <<WordBoundary>> \o Number
         \o <<Set(SpaceChars, 0, -1), Str("percent"), WordBoundary>> >>

extract_percentages(txt) == Range(FindEach(percentage_patterns, txt, TRUE))

----------------------------------------------------------------------------
(* EntityExtractor.extract_entities *)

EntityKinds ==
    {"parties", "dates", "amounts", "obligations", "penalties", "addresses",
     "email_addresses", "phone_numbers", "percentages", "termination_conditions"}

_get_empty_entities == [k \in EntityKinds |-> <<>>]

\* what each extract_... method returns before list(set(...)) orders it
Extracted(txt, ents) ==
    [parties |-> extract_parties(txt, ents),
     dates |-> extract_dates(txt),
     amounts |-> extract_monetary_amounts(txt),
     obligations |-> extract_obligations(txt),
     penalties |-> extract_penalties(txt),
     addresses |-> extract_addresses(txt),
     email_addresses |-> extract_emails(txt),
     phone_numbers |-> extract_phone_numbers(txt),
     percentages |-> extract_percentages(txt),
     termination_conditions |-> extract_termination_conditions(txt)]

JoinedEach(items) == [i \in 1..Len(items) |-> Joined(items[i])]

\* the records made of one list of each kind, lists[k] being the lists the
\* kind k can come to
EntityRecords(lists) ==
    {[parties |-> JoinedEach(pa), dates |-> JoinedEach(da),
      amounts |-> JoinedEach(am), obligations |-> JoinedEach(ob),
      penalties |-> JoinedEach(pe), addresses |-> JoinedEach(ad),
      email_addresses |-> JoinedEach(em), phone_numbers |-> JoinedEach(ph),
      percentages |-> JoinedEach(pct), termination_conditions |-> JoinedEach(te)] :
       pa \in lists["parties"], da \in lists["dates"], am \in lists["amounts"],
       ob \in lists["obligations"], pe \in lists["penalties"],
       ad \in lists["addresses"], em \in lists["email_addresses"],
       ph \in lists["phone_numbers"], pct \in lists["percentages"],
       te \in lists["termination_conditions"]}

\* txt: the characters of the document; ents: what spaCy names; raised: an
\* exception inside the try block.  The results extract_entities can return,
\* one for each order list(set(...)) can give: each item is the str of its
\* characters.
extract_entities(txt, ents, raised) ==
    IF raised
    THEN {_get_empty_entities}
    ELSE LET found == Extracted(txt, ents)
         IN  EntityRecords([k \in EntityKinds |->
                               {_clean_and_deduplicate(l) : l \in ListsOfSet(found[k])}])

----------------------------------------------------------------------------
(* Texts for the entity extractor, and payment clauses naming an amount.   *)

\* the words the payment patterns of clause_patterns match
PaymentWords ==
    {<<"pay", "ment">>, <<"pay">>, <<"fee">>, <<"cost">>, <<"price">>, <<"invoice">>,
     <<"billing">>, <<"charge">>}

\* the amount $5,000 and what follows it
AmountContexts ==
    {<<"$", "5", ",", "000", ".">>,
     <<"$", "5", ",", "000", " ", "monthly">>,
     <<"$", "5", ",", "000", ",", " ", "due", " ", "monthly", ".">>,
     <<"$", "5", ",", "000", ".", "00", " ", "in", " ", "total", ".">>,
     <<"$", "100", " ", "or", " ", "$", "5", ",", "000", ".">>}

PaymentClauses ==
    {<<"The", " ">> \o w \o <<" ", "is", " ">> \o a : w \in PaymentWords, a \in AmountContexts}

\* what spaCy can name in txt: nothing (also when the rule-based extraction
\* is the primary method), or one capitalised word of the text
SpacyOutcomes(txt) ==
    {<<>>} \cup {<<w>> : w \in Range(FindAll(<<WordBoundary>> \o CapitalisedWord
                                               \o <<WordBoundary>>, txt, FALSE))}

\* extract_entities(text)
ExtractEntities ==
    /\ pc = "clause_start"
    /\ \E ents \in SpacyOutcomes(Spelled(text)) :
         \E entities \in extract_entities(Spelled(text), ents, FALSE) :
            record' = [kind |-> "entities", entities |-> entities]
    /\ pc' = "extracted"
    /\ UNCHANGED <<text, clause_type, fault, sections, calls>>

\* extract_entities(text) with an exception inside the try block
ExtractEntitiesRaises ==
    /\ pc = "clause_start"
    /\ fault' = {"entities"}
    /\ \E entities \in extract_entities(Spelled(text), <<>>, TRUE) :
         record' = [kind |-> "entities", entities |-> entities]
    /\ pc' = "extracted"
    /\ UNCHANGED <<text, clause_type, sections, calls>>

InitPayment ==
    /\ pc = "clause_start"
    /\ text \in PaymentClauses
    /\ clause_type = ""
    /\ fault = {}
    /\ sections = <<>>
    /\ record = NoRecord
    /\ calls = <<>>

NextPayment == AnalyzeClause \/ ExtractEntities \/ ExtractEntitiesRaises

SpecPayment == InitPayment /\ [][NextPayment]_vars

----------------------------------------------------------------------------
(* Documents for extract_entities: a sentence, or a sentence after an      *)
(* opening.  Among them items with runs of white space, items shorter than *)
(* 3 and longer than 200 characters, items equal but for case, and more    *)
(* than 10 items of one kind.                                              *)

EntitySentences ==
    {<<>>,
     <<"no entities here">>,
     <<"This Agreement is made between Acme Corp and John Smith, on January 5, 2024.">>,
     <<"The Company shall  deliver\n the   goods within 30 days.">>,
     <<"pay USD 500 or usd 500, or $5">>,
     <<"fees: $10, $20, $30, $40, $50, $60, $70, $80, $90, $100, $110.">>,
     <<"A late fee of 5% applies, 10 percent or 2.5%x per month">>,
     <<"Either party may terminate upon 30 days notice. After material breach, it ends.">>,
     <<"Contact jane.doe@example.com or call (555) 123-4567.">>,
     <<"Office: 12 Main Street, Springfield, IL 62704.">>,
     <<"The late fee ", Body50, " ", Body50, " ", Body50, " ", Body50, " end.">>,
     <<"penalty   of one hundred dollars for breach of this contract">>}

EntityOpenings ==
    {<<"Within 30 days, within 30 days: ">>,
     <<"Tenant MUST PAY $120 AND Usd 500. ">>}

EntityDocuments ==
    EntitySentences \cup {o \o s : o \in EntityOpenings, s \in EntitySentences}

InitEntities ==
    /\ pc = "clause_start"
    /\ text \in EntityDocuments
    /\ clause_type = ""
    /\ fault = {}
    /\ sections = <<>>
    /\ record = NoRecord
    /\ calls = <<>>

NextEntities == ExtractEntities \/ ExtractEntitiesRaises

SpecEntities == InitEntities /\ [][NextEntities]_vars

----------------------------------------------------------------------------
(* Clause lists for assess_risk: up to MaxRiskClauses clauses, each the      *)
(* record _analyze_clause returns for one text of a palette whose texts the *)
(* RiskAnalyzer scores 3, 4, 5, 7 and 9.                                     *)

MaxRiskClauses == 4

\* a clause of more than 500 characters whose only risk term follows the
\* first 500 characters
LongClause ==
    <<Body50, Body50, Body50, Body50, Body50, Body50, Body50, Body50, Body50, Body50,
      " ", "sole", " ", "discretion">>

RiskClauseTexts ==
    { LongClause,
      Section(<<"confidential">>),
      Section(<<"court">>),
      Section(<<"late", " ", "fee", "s">>),
      Section(<<"sole", " ", "discretion">>) }

\* the clause records of analyze_document for these sections
ClauseRecords(secs) == [i \in 1..Len(secs) |-> _analyze_clause(secs[i], i - 1, FALSE)]

InitRisk ==
    /\ pc = "risk_start"
    /\ text = <<>>
    /\ clause_type = ""
    /\ fault = {}
    /\ sections \in UNION {[1..n -> RiskClauseTexts] : n \in 1..MaxRiskClauses}
    /\ record = NoRecord
    /\ calls = <<>>

\* assess_risk(clauses) on the clause records of the sections
AssessRisk ==
    /\ pc = "risk_start"
    /\ record' = [kind |-> "risk",
                  clauses |-> ClauseRecords(sections),
                  risk_assessment |-> assess_risk(ClauseRecords(sections), FALSE)]
    /\ pc' = "risk_assessed"
    /\ UNCHANGED <<text, clause_type, fault, sections, calls>>

NextRisk == AssessRisk

SpecRisk == InitRisk /\ [][NextRisk]_vars

----------------------------------------------------------------------------
(* AIAnalyzer.check_jurisdiction_compliance.  The jurisdiction, the clause  *)
(* types and the restricted terms are strs; document_text is the run of     *)
(* characters of the clauses' contents.                                      *)

\* the table with a category of the classifier required for 'eu'
jurisdiction_rules_EuRequiresConfidentiality ==
    [indian |-> [required_clauses |-> <<"termination", "dispute_resolution">>,
                 restricted_terms |-> <<"unlimited liability",
                                        "waiver of statutory rights">>,
                 mandatory_provisions |-> <<"governing law clause",
                                            "jurisdiction clause">>],
     us |-> [required_clauses |-> <<"termination", "liability">>,
             restricted_terms |-> <<"penalty clauses", "unconscionable terms">>,
             mandatory_provisions |-> <<"choice of law", "dispute resolution">>],
     eu |-> [required_clauses |-> <<"confidentiality", "consumer rights">>,
             restricted_terms |-> <<"unfair contract terms", "consumer right waivers">>,
             mandatory_provisions |-> <<"GDPR compliance", "cooling-off period">>]]

jurisdiction_rules ==
    [indian |-> [required_clauses |-> <<"termination", "dispute_resolution">>,
                 restricted_terms |-> <<"unlimited liability",
                                        "waiver of statutory rights">>,
                 mandatory_provisions |-> <<"governing law clause",
                                            "jurisdiction clause">>],
     us |-> [required_clauses |-> <<"termination", "liability">>,
             restricted_terms |-> <<"penalty clauses", "unconscionable terms">>,
             mandatory_provisions |-> <<"choice of law", "dispute resolution">>],
     eu |-> [required_clauses |-> <<"data protection", "consumer rights">>,
             restricted_terms |-> <<"unfair contract terms", "consumer right waivers">>,
             mandatory_provisions |-> <<"GDPR compliance", "cooling-off period">>]]

\* the look-up with the rules of 'eu' as the default
rules_DefaultEu(jurisdiction) ==
    LET key == Joined(LowerStr(Spell(jurisdiction)))
    IN  IF key \in DOMAIN jurisdiction_rules
        THEN jurisdiction_rules[key]
        ELSE jurisdiction_rules["eu"]

\* jurisdiction_rules.get(jurisdiction.lower(), jurisdiction_rules['indian'])
rules(jurisdiction) ==
    LET key == Joined(LowerStr(Spell(jurisdiction)))
    IN  IF key \in DOMAIN jurisdiction_rules
        THEN jurisdiction_rules[key]
        ELSE jurisdiction_rules["indian"]

\* required.replace('_', ' ')
ReplaceUnderscores(w) == Joined([i \in 1..Len(w) |-> IF SubSeq(w, i, i) = "_" THEN " "
                                                      ELSE SubSeq(w, i, i)])

\* ' '.join(contents), as characters
RECURSIVE JoinContents(_)
JoinContents(contents) ==
    IF contents = <<>> THEN <<>>
    ELSE IF Len(contents) = 1 THEN Spelled(contents[1])
    ELSE Spelled(contents[1]) \o <<" ">> \o JoinContents(Tail(contents))

\* x in s, for runs of characters
InStr(x, s) == \E j \in 1..(Len(s) - Len(x) + 1) : StrAt(x, s, j, FALSE)

\* an issue and a recommendation are kept as the message and the value put
\* into it
MissingClause(required) ==
    [issue |-> <<"Missing required {} clause", ReplaceUnderscores(required)>>,
     recommendation |-> <<"Add a {} clause", ReplaceUnderscores(required)>>]
ProblematicTerm(restricted) ==
    [issue |-> <<"Contains potentially problematic term: '{}'", restricted>>,
     recommendation |-> <<"Review and possibly remove '{}' clause", restricted>>]

HighCompliance == 80
MediumCompliance == 60

\* raised: an exception inside the try block.  compliance_score is in tenths.
check_jurisdiction_compliance(clauses, jurisdiction, raised) ==
    IF raised
    THEN [jurisdiction |-> jurisdiction,
          compliance_level |-> "Unknown",
          compliance_score |-> 0,
          issues |-> << <<"Compliance check failed: {}", "">> >>,
          recommendations |-> << <<"Manual legal review recommended", "">> >>,
          checked_provisions |-> <<>>]
    ELSE LET r == rules(jurisdiction)
             clause_types == {clauses[i].clause_type : i \in 1..Len(clauses)}
             missing == SelectSeq(r.required_clauses, LAMBDA required :
                                      required \notin clause_types)
             document_text ==
                 LowerStr(JoinContents([i \in 1..Len(clauses) |-> clauses[i].content]))
             problematic == SelectSeq(r.restricted_terms, LAMBDA restricted :
                                          InStr(LowerStr(Spell(restricted)), document_text))
             found == [i \in 1..Len(missing) |-> MissingClause(missing[i])] \o
                      [i \in 1..Len(problematic) |-> ProblematicTerm(problematic[i])]
             total_checks == Len(r.required_clauses) + Len(r.restricted_terms)
             issues_found == Len(found)
             \* compliance_score is score_num / total_checks
             score_num == Max(0, (total_checks - issues_found) * 100)
         IN  [jurisdiction |-> jurisdiction,
              compliance_level |->
                  IF score_num >= HighCompliance * total_checks THEN "High"
                  ELSE IF score_num >= MediumCompliance * total_checks THEN "Medium"
                  ELSE "Low",
              compliance_score |-> RoundTenths(score_num, total_checks),
              issues |-> [i \in 1..Len(found) |-> found[i].issue],
              recommendations |-> [i \in 1..Len(found) |-> found[i].recommendation],
              checked_provisions |->
                  <<"required_clauses", "restricted_terms", "mandatory_provisions">>]

----------------------------------------------------------------------------
(* Calls of check_jurisdiction_compliance: the clause records of up to      *)
(* MaxComplianceClauses sections, and a jurisdiction.                        *)

MaxComplianceClauses == 2

ComplianceClauseTexts ==
    { Section(ScenarioClause),
      Section(<<"court">>),
      Section(<<"un", "limited", " ", "liabilit", "y">>),
      Section(<<"penalty", " ", "clause", "s">>),
      Section(<<"confidential">>),
      Section(<<"unfair", " ", "contract", " ", "terms">>) }

Jurisdictions == {"indian", "Indian", "INDIAN", "us", "US", "eu", "Eu", "uk", "india", ""}

InitCompliance ==
    /\ pc = "compliance_start"
    /\ text = <<>>
    /\ clause_type = ""
    /\ fault = {}
    /\ sections \in UNION {[1..n -> ComplianceClauseTexts] : n \in 0..MaxComplianceClauses}
    /\ record = NoRecord
    /\ calls = <<>>

\* check_jurisdiction_compliance(clauses, jurisdiction) on the clause records
\* of the sections, as check_jurisdiction calls it on a stored document
CheckJurisdiction ==
    /\ pc = "compliance_start"
    /\ \E jurisdiction \in Jurisdictions :
         record' = [kind |-> "compliance",
                    clauses |-> ClauseRecords(sections),
                    jurisdiction |-> jurisdiction,
                    compliance_result |->
                        check_jurisdiction_compliance(ClauseRecords(sections),
                                                      jurisdiction, FALSE)]
    /\ pc' = "compliance_checked"
    /\ UNCHANGED <<text, clause_type, fault, sections, calls>>

NextCompliance == CheckJurisdiction

SpecCompliance == InitCompliance /\ [][NextCompliance]_vars

----------------------------------------------------------------------------
(* AIAnalyzer.answer_question.  The question, the synonyms and the clause   *)
(* types are strs, matched as runs of characters; the answer is the         *)
(* sequence of the pieces it is concatenated from.                          *)

\* the lists of synonyms, in the order of the keywords terminate, pay,
\* liability, confidential, breach, obligation
question_keywords ==
    << <<"termination", "end", "cancel">>,
       <<"payment", "cost", "fee", "price">>,
       <<"liable", "responsible", "damages">>,
       <<"confidential", "secret", "private">>,
       <<"breach", "violation", "default">>,
       <<"obligation", "duty", "requirement", "must">> >>

\* the synonyms of every keyword one of whose synonyms the question holds
relevant_types(question_lower) ==
    Flatten([k \in 1..Len(question_keywords) |->
                IF \E n \in 1..Len(question_keywords[k]) :
                       InStr(Spell(question_keywords[k][n]), question_lower)
                THEN question_keywords[k] ELSE <<>>])

\* any(rtype in clause_text or rtype in clause_type for rtype in types)
IsRelevant(clause, types) ==
    LET clause_text == LowerStr(Spelled(clause.content))
    IN  \E n \in 1..Len(types) :
            \/ InStr(Spell(types[n]), clause_text)
            \/ InStr(Spell(types[n]), Spell(clause.clause_type))

NoInformationAnswer ==
    <<"I couldn't find specific information about your question in this document. You might want to consult with a legal professional for clarification.">>
MoreContextAnswer ==
    <<"The document contains relevant clauses, but I need more context to provide a specific answer. Please consider consulting with a legal professional.">>
AnswerOpening == <<"Based on the document analysis: ">>
\* the suffix opens with a blank, the warning sign U+26A0 U+FE0F and a blank
HighRiskWarning ==
    <<" (U+26A0 U+FE0F) Please note that some related clauses have been flagged as high-risk.">>

MaxAnswerParts == 3

\* " ".join(parts)
RECURSIVE JoinParts(_)
JoinParts(parts) ==
    IF parts = <<>> THEN <<>>
    ELSE IF Len(parts) = 1 THEN parts[1]
    ELSE parts[1] \o <<" ">> \o JoinParts(Tail(parts))

\* the answer with the warning decided on the clauses it quotes
answer_question_WarningForQuoted(document_text, clauses, question, raised) ==
    IF raised
    THEN <<"I encountered an error while analyzing your question: {}. Please try rephrasing your question.">>
    ELSE LET types == relevant_types(LowerStr(Spell(question)))
             relevant_clauses == SelectSeq(clauses, LAMBDA c : IsRelevant(c, types))
             quoted == Take(relevant_clauses, MaxAnswerParts)
             answer_parts == SelectSeq([i \in 1..Len(quoted) |-> quoted[i].simplified],
                                       LAMBDA simplified : simplified # <<>>)
         IN  IF relevant_clauses = <<>> THEN NoInformationAnswer
             ELSE IF answer_parts = <<>> THEN MoreContextAnswer
             ELSE AnswerOpening \o JoinParts(answer_parts) \o
                  (IF \E i \in 1..Len(quoted) : quoted[i].risk_level = "high"
                   THEN HighRiskWarning ELSE <<>>)

\* raised: an exception inside the try block.  document_text is not read.
answer_question(document_text, clauses, question, raised) ==
    IF raised
    THEN <<"I encountered an error while analyzing your question: {}. Please try rephrasing your question.">>
    ELSE LET types == relevant_types(LowerStr(Spell(question)))
             relevant_clauses == SelectSeq(clauses, LAMBDA c : IsRelevant(c, types))
             quoted == Take(relevant_clauses, MaxAnswerParts)
             answer_parts == SelectSeq([i \in 1..Len(quoted) |-> quoted[i].simplified],
                                       LAMBDA simplified : simplified # <<>>)
         IN  IF relevant_clauses = <<>> THEN NoInformationAnswer
             ELSE IF answer_parts = <<>> THEN MoreContextAnswer
             ELSE AnswerOpening \o JoinParts(answer_parts) \o
                  (IF \E i \in 1..Len(relevant_clauses) :
                          relevant_clauses[i].risk_level = "high"
                   THEN HighRiskWarning ELSE <<>>)

----------------------------------------------------------------------------
(* Questions on a stored document: the clause records of up to              *)
(* MaxAnswerClauses sections, and a question.                                *)

MaxAnswerClauses == 4

AnswerClauseTexts ==
    { Section(NoticeScenarioClause),
      Section(<<"immediate", " ", "terminat", "ion", " ", "without", " ", "cause">>),
      Section(<<"late", " ", "fee", "s">>),
      Section(<<"confidential">>) }

Questions ==
    { "How can I end this contract?",
      "What is the Fee?",
      "Who is liable for damages?",
      "Can I terminate?",
      "" }

InitAnswer ==
    /\ pc = "answer_start"
    /\ text = <<>>
    /\ clause_type = ""
    /\ fault = {}
    /\ sections \in UNION {[1..n -> AnswerClauseTexts] : n \in 0..MaxAnswerClauses}
    /\ record = NoRecord
    /\ calls = <<>>

\* answer_question(text_content, clauses, question) on the clause records of
\* the sections, as ask_question calls it on a stored document
AskQuestion ==
    /\ pc = "answer_start"
    /\ \E question \in Questions :
         record' = [kind |-> "answer",
                    clauses |-> ClauseRecords(sections),
                    question |-> question,
                    answer |-> answer_question(JoinSections(sections),
                                               ClauseRecords(sections), question, FALSE)]
    /\ pc' = "answered"
    /\ UNCHANGED <<text, clause_type, fault, sections, calls>>

NextAnswer == AskQuestion

SpecAnswer == InitAnswer /\ [][NextAnswer]_vars

----------------------------------------------------------------------------
(* Clause texts for _simplify_clause: the words its appends look for, each  *)
(* present or absent, in a fixed order.                                      *)

SimplifyFragments ==
    << <<"terminat", "ion">>,
       <<"30", " ", "days", " ", "notice">>,
       <<"without", " ", "cause">>,
       <<"pay", "ment">>,
       <<"$", "5", ",", "000">>,
       <<"late", " ", "fee">>,
       <<"1", " ", "day", " ", "notice">> >>

\* the fragments chosen by mask, joined by blanks
ChosenFragments(mask) ==
    LET chosen == SelectSeq([i \in 1..Len(SimplifyFragments) |-> i], LAMBDA i : mask[i])
    IN  JoinPhrases([k \in 1..Len(chosen) |-> SimplifyFragments[chosen[k]]])

SimplifyTexts ==
    {ChosenFragments(mask) : mask \in [1..Len(SimplifyFragments) -> BOOLEAN]}

InitSimplify ==
    /\ pc = "clause_start"
    /\ text \in SimplifyTexts
    /\ clause_type = ""
    /\ fault = {}
    /\ sections = <<>>
    /\ record = NoRecord
    /\ calls = <<>>

NextSimplify == AnalyzeClause \/ AnalyzeClauseRaises

SpecSimplify == InitSimplify /\ [][NextSimplify]_vars

----------------------------------------------------------------------------
(* Clause texts for _identify_clause_type: the words of its fallback       *)
(* classification, words of two categories and words of neither, up to     *)
(* MaxTypeWords of them joined by single spaces.                           *)

MaxTypeWords == 2

TypeWords ==
    { <<"shall">>, <<"will">>, <<"must">>, <<"required">>,
      <<"may">>, <<"can">>, <<"permitted">>, <<"allowed">>,
      <<"can", "cell", "ation">>, <<"court">>, <<"The">>, <<"Company">> }

TypeTexts ==
    UNION {{JoinPhrases(ps) : ps \in [1..n -> TypeWords]} : n \in 0..MaxTypeWords}

InitType ==
    /\ pc = "clause_start"
    /\ text \in TypeTexts
    /\ clause_type = ""
    /\ fault = {}
    /\ sections = <<>>
    /\ record = NoRecord
    /\ calls = <<>>

NextType == IdentifyClauseType

SpecType == InitType /\ [][NextType]_vars

----------------------------------------------------------------------------
(* main.py: documents_store and the handlers that read and write it.  The   *)
(* handlers run on one event loop: a handler runs alone from one suspension *)
(* to the next, and the only await that suspends is file.read() of          *)
(* upload_document (the coroutines of AIAnalyzer never wait).  The store,   *)
(* the uploads suspended at the file read, the clock and the last response  *)
(* are the fields of record.                                                *)

MaxRequests == 3
MaxUploading == 2
MaxClock == 1

\* s.endswith(x), for runs of characters
EndsWithStr(s, x) == Len(x) <= Len(s) /\ SubSeq(s, Len(s) - Len(x) + 1, Len(s)) = x

\* file.filename.lower().endswith(('.pdf', '.docx', '.doc'))
SupportedType(filename) ==
    \E suffix \in {".pdf", ".docx", ".doc"} :
        EndsWithStr(LowerStr(Spell(filename)), Spell(suffix))

\* the files a client uploads: the name, the text extract_text finds in the
\* file, and whether extract_text can read it
UploadFiles ==
    { [filename |-> "contract.pdf", text |-> Section(ScenarioClause), readable |-> TRUE],
      [filename |-> "Lease.DOCX", text |-> Section(<<"court">>), readable |-> TRUE],
      [filename |-> "memo.doc", text |-> ShortSection, readable |-> TRUE],
      [filename |-> "broken.pdf", text |-> <<>>, readable |-> FALSE],
      [filename |-> "notes.txt", text |-> Section(<<"court">>), readable |-> TRUE] }

\* a document id no upload has given
UnknownId == [second |-> -1, count |-> 0]

\* the id without the number of stored documents
document_id_SecondOnly(store, second) == [second |-> second, count |-> 0]

\* f"doc_{datetime.now().strftime('%Y%m%d_%H%M%S')}_{len(documents_store)}":
\* the second of the clock and the number of stored documents
document_id(store, second) == [second |-> second, count |-> Cardinality(DOMAIN store)]

\* the entities extract_entities can return for the text of each file
PossibleEntities ==
    [txt \in {file.text : file \in UploadFiles} |->
        UNION {extract_entities(Spelled(txt), ents, FALSE) :
               ents \in SpacyOutcomes(Spelled(txt))}]
EntitiesOf(txt) == PossibleEntities[txt]

\* what analyze_document returns for the text and the name of each file, at
\* each second
Analyses ==
    [txt \in {file.text : file \in UploadFiles},
     filename \in {file.filename : file \in UploadFiles},
     clock \in 0..MaxClock |-> analyze_document(txt, filename, {}, clock)]

\* full_analysis, of the results of the calls before it
Combined(id, file, second, analysis_result, entities, risk_assessment) ==
    [document_id |-> id,
     filename |-> file.filename,
     upload_time |-> second,
     text_content |-> file.text,
     summary |-> analysis_result.summary,
     clauses |-> analysis_result.clauses,
     entities |-> entities,
     risk_assessment |-> risk_assessment,
     overall_risk |-> risk_assessment.overall_risk,
     last_analyzed |-> <<>>]

Assessed(id, file, second, analysis_result, entities) ==
    Combined(id, file, second, analysis_result, entities,
             assess_risk(analysis_result.clauses, FALSE))

full_analysis(id, file, second, entities) ==
    Assessed(id, file, second, Analyses[file.text, file.filename, second], entities)

\* documents_store[document_id] = full_analysis
Stored(store, id, entry) ==
    [d \in DOMAIN store \cup {id} |-> IF d = id THEN entry ELSE store[d]]

\* the update that empties the clauses
reanalyzed_ClausesLost(doc_data, analysis_result, second) ==
    [doc_data EXCEPT !.clauses = <<>>,
                     !.summary = analysis_result.summary,
                     !.last_analyzed = <<second>>]

\* doc_data.update({"clauses": ..., "summary": ..., "last_analyzed": ...})
reanalyzed(doc_data, analysis_result, second) ==
    [doc_data EXCEPT !.clauses = analysis_result.clauses,
                     !.summary = analysis_result.summary,
                     !.last_analyzed = <<second>>]

documents_store == record.documents_store
uploading == record.uploading
second == record.second
response == record.response

Serving(store, files, clock, answer) ==
    [kind |-> "store", documents_store |-> store, uploading |-> files, second |-> clock,
     response |-> answer]

Response(request, id, status) ==
    [serial |-> response.serial + 1, request |-> request, document_id |-> id,
     status |-> status]

InitStore ==
    /\ pc = "serving"
    /\ text = <<>>
    /\ clause_type = ""
    /\ fault = {}
    /\ sections = <<>>
    /\ record = Serving([d \in {} |-> {}], <<>>, 0,
                        [serial |-> 0, request |-> "", document_id |-> UnknownId,
                         status |-> 0])
    /\ calls = <<>>

\* one more request may be taken
Accepting == response.serial + Len(uploading) < MaxRequests

\* upload_document up to `await file.read()`: a file of an unsupported type
\* is refused (the HTTPException 400 is caught and raised again as 500)
UploadDocument ==
    /\ pc = "serving" /\ Accepting
    /\ \E file \in UploadFiles :
         IF SupportedType(file.filename)
         THEN /\ Len(uploading) < MaxUploading
              /\ record' = Serving(documents_store, Append(uploading, file), second, response)
         ELSE record' = Serving(documents_store, uploading, second,
                                Response("upload", UnknownId, 500))
    /\ UNCHANGED <<pc, text, clause_type, fault, sections, calls>>

\* upload_document from the file read on: the id, the text, the analysis,
\* the entities, the risk assessment, and the entry stored; a file that
\* extract_text cannot read ends the request with 500
UploadDocumentResumes ==
    /\ pc = "serving"
    /\ \E k \in 1..Len(uploading) :
         IF uploading[k].readable
         THEN \E entities \in EntitiesOf(uploading[k].text) :
                 record' = Serving(
                     Stored(documents_store, document_id(documents_store, second),
                            full_analysis(document_id(documents_store, second),
                                          uploading[k], second, entities)),
                     SubSeq(uploading, 1, k - 1) \o SubSeq(uploading, k + 1, Len(uploading)),
                     second,
                     Response("upload", document_id(documents_store, second), 200))
         ELSE record' = Serving(
                     documents_store,
                     SubSeq(uploading, 1, k - 1) \o SubSeq(uploading, k + 1, Len(uploading)),
                     second,
                     Response("upload", UnknownId, 500))
    /\ UNCHANGED <<pc, text, clause_type, fault, sections, calls>>

\* reanalyze_document(document_id)
ReanalyzeDocument ==
    /\ pc = "serving" /\ Accepting
    /\ \E id \in DOMAIN documents_store \cup {UnknownId} :
         IF id \notin DOMAIN documents_store
         THEN record' = Serving(documents_store, uploading, second,
                                Response("analyze", id, 404))
         ELSE record' = Serving(
                  Stored(documents_store, id,
                         reanalyzed(documents_store[id],
                                    Analyses[documents_store[id].text_content,
                                             documents_store[id].filename, second],
                                    second)),
                  uploading, second, Response("analyze", id, 200))
    /\ UNCHANGED <<pc, text, clause_type, fault, sections, calls>>

\* extract_entities_endpoint(document_id)
ExtractEntitiesEndpoint ==
    /\ pc = "serving" /\ Accepting
    /\ \E id \in DOMAIN documents_store \cup {UnknownId} :
         IF id \notin DOMAIN documents_store
         THEN record' = Serving(documents_store, uploading, second,
                                Response("extract-entities", id, 404))
         ELSE \E entities \in EntitiesOf(documents_store[id].text_content) :
                 record' = Serving(
                     Stored(documents_store, id,
                            [documents_store[id] EXCEPT !.entities = entities]),
                     uploading, second, Response("extract-entities", id, 200))
    /\ UNCHANGED <<pc, text, clause_type, fault, sections, calls>>

\* the handlers that read one entry: get_document, ask_question,
\* get_risk_analysis, check_jurisdiction
ReadDocument ==
    /\ pc = "serving" /\ Accepting
    /\ \E request \in {"documents", "qa", "risk-analysis", "jurisdiction-check"} :
         \E id \in DOMAIN documents_store \cup {UnknownId} :
            record' = Serving(documents_store, uploading, second,
                              Response(request, id,
                                       IF id \in DOMAIN documents_store THEN 200 ELSE 404))
    /\ UNCHANGED <<pc, text, clause_type, fault, sections, calls>>

\* a second passes on the clock of datetime.now()
Tick ==
    /\ pc = "serving"
    /\ second < MaxClock
    /\ record' = Serving(documents_store, uploading, second + 1, response)
    /\ UNCHANGED <<pc, text, clause_type, fault, sections, calls>>

NextStore ==
    \/ UploadDocument
    \/ UploadDocumentResumes
    \/ ReanalyzeDocument
    \/ ExtractEntitiesEndpoint
    \/ ReadDocument
    \/ Tick

SpecStore == InitStore /\ [][NextStore]_vars

----------------------------------------------------------------------------
(* The segmenter's contract *)

\* the fragments the call in progress filtered: the paragraphs when the try
\* block raised, the sections after the separator passes otherwise
Candidates == IF "split" \in fault THEN Paragraphs(text) ELSE Fragments(text)
LongCandidates == SelectSeq(Candidates, LAMBDA s : StrLen(s) > MinClauseLen)
Cap == IF "split" \in fault THEN MaxFallbackClauses ELSE MaxClauses

\* C1 as stated: for every non-empty input text, the clause segmenter returns
\* at least one clause.
C1_NonEmptyTextYieldsClause ==
    (pc = "seg_done" /\ text # <<>>) => sections # <<>>

\* C1, amended: the segmenter returns at least one clause exactly when some
\* fragment left by the separator passes (some paragraph, on the exception
\* path) is longer than 100 characters; a non-empty text whose fragments are
\* all 100 characters or shorter yields the empty list.
C1_ClauseIffLongFragment ==
    pc = "seg_done" =>
        LET fragments == Candidates
        IN  sections # <<>> <=> \E i \in 1..Len(fragments) : StrLen(fragments[i]) > 100

\* a non-empty text, segmented, with no clause returned
C1_NonEmptyTextNoClause ==
    pc = "seg_done" /\ text # <<>> /\ StrLen(text) > 100 /\ sections = <<>>

\* secs occur in txt from position from on, one after the other, in order
RECURSIVE Embeds(_, _, _)
Embeds(secs, txt, from) ==
    IF secs = <<>> THEN TRUE
    ELSE LET n == Len(Head(secs))
             at == {k \in from..(Len(txt) - n + 1) : SubSeq(txt, k, k + n - 1) = Head(secs)}
         IN  at # {} /\ Embeds(Tail(secs), txt, (CHOOSE k \in at : \A j \in at : k <= j) + n)

\* C2: every element the segmenter returns is whitespace-trimmed and at least
\* 100 characters long; there are at most 20 elements (10 on the exception
\* path); the elements are in the order of the source text, and the cap keeps
\* the first fragments.
C2_TrimmedLongCappedOrdered ==
    pc = "seg_done" =>
        LET long == LongCandidates
        IN
        /\ \A i \in 1..Len(sections) :
              /\ sections[i] # <<>>
              /\ sections[i][1] \notin WhiteSpace
              /\ sections[i][Len(sections[i])] \notin WhiteSpace
              /\ StrLen(sections[i]) >= 100
        /\ Len(sections) <= (IF "split" \in fault THEN 10 ELSE 20)
        /\ Embeds(sections, text, 1)
        /\ Len(sections) <= Len(long)
        /\ \A i \in 1..Len(sections) : sections[i] = long[i]

\* the cap acted, on a list whose first fragment differs from its last ones
C2_CapActed ==
    /\ pc = "seg_done"
    /\ Len(sections) = Cap
    /\ LET long == LongCandidates
       IN  Len(long) > Cap /\ long[1] # long[Len(long)]

----------------------------------------------------------------------------
(* The classifier's and the scorers' contracts *)

DeclaredOrder ==
    <<"termination", "liability", "payment", "confidentiality", "intellectual_property",
      "dispute_resolution">>

\* the positions, in declared order, of the categories a pattern of which
\* matches the text in hand
MatchingCategories ==
    {k \in 1..Len(clause_patterns) : MatchesType(clause_patterns[k], Lower(text))}

\* C3: the classifier returns exactly one category, and when patterns of
\* several categories match the text it returns the one declared earliest in
\* the order termination, liability, payment, confidentiality,
\* intellectual_property, dispute_resolution.
C3_EarliestDeclaredCategoryWins ==
    pc = "identified" =>
        LET matching == MatchingCategories
        IN  /\ [k \in 1..Len(clause_patterns) |-> clause_patterns[k].type] = DeclaredOrder
            /\ record.clause_type \in
                 {DeclaredOrder[k] : k \in 1..6} \cup {"obligation", "right", "general"}
            /\ \A k \in matching :
                 (\A j \in matching : k <= j) => record.clause_type = DeclaredOrder[k]
            /\ matching = {} => record.clause_type \in {"obligation", "right", "general"}

\* a text that patterns of termination and of liability both match, classified
C3_TerminationAndLiabilityMatch ==
    /\ pc = "identified"
    /\ {1, 2} \subseteq MatchingCategories
    /\ record.clause_type = "termination"

\* C4: for every clause text and category, the score of _assess_clause_risk,
\* of _analyze_clause_risk, and of their error fallbacks is an integer from 1
\* to 10.
C4_ScoreFromOneToTen ==
    /\ pc \in {"assessed", "reassessed", "risk_analyzed", "risk_scored", "risk_rescored"}
         => record.risk.score \in 1..10
    /\ pc = "analyzed" => record.clause.risk_score \in 1..10
    /\ pc = "risk_analyzed" => record.clause.risk_score \in 1..10

\* a clause with three high-risk keywords, which alone add up to more than 10,
\* scored 10
C4_ManyKeywordsScoreTen ==
    /\ pc = "assessed"
    /\ Len(FoundIn(high_risk_keywords, Lower(text))) >= 3
    /\ record.risk.score = 10

\* C6: for either scorer and any category, a clause text with no risk term,
\* scored again after one phrase of that scorer's high-risk list is appended
\* to it, never gets a lower score than before.
C6_AppendedPhraseNeverLowersScore ==
    pc \in {"reassessed", "risk_rescored"} => record.risk.score >= record.before.score

\* a clause free of risk terms whose score rose when a high-risk term of the
\* RiskAnalyzer was appended
C6_AppendedTermRaisedScore ==
    /\ pc = "risk_rescored"
    /\ record.before.factors = <<>>
    /\ record.risk.score > record.before.score

InFactors(factors, f) == \E i \in 1..Len(factors) : factors[i] = f

\* the scenario clause went through _analyze_clause and _analyze_clause_risk,
\* neither raising
ScenarioAnalyzed == pc = "risk_analyzed" /\ text = ScenarioClause /\ fault = {}

----------------------------------------------------------------------------
(* The contracts of analyze_document and assess_risk *)

\* the level the thresholds score <= 3 low, 4..6 medium, score >= 7 high give
LevelOf(score) == IF score <= 3 THEN "low" ELSE IF score <= 6 THEN "medium" ELSE "high"

\* C5: in every clause record analyze_document returns, risk_level is the
\* level the thresholds score <= 3 low, 4..6 medium, score >= 7 high give for
\* the record's risk_score; a clause with score 7 is stored as high.
C5_LevelRegeneratedFromScore ==
    record.kind = "analysis" =>
        \A i \in 1..Len(record.analysis_result.clauses) :
            record.analysis_result.clauses[i].risk_level =
                LevelOf(record.analysis_result.clauses[i].risk_score)

\* C7: assess_risk on an empty clause list returns overall_risk 'unknown',
\* total_clauses 0, risk_score 0, no top risk areas and a non-empty list of
\* default recommendations.
C7_EmptyClauseListAssessment ==
    (record.kind = "analysis" /\ record.analysis_result.clauses = <<>>) =>
        /\ record.risk_assessment.overall_risk = "unknown"
        /\ record.risk_assessment.total_clauses = 0
        /\ record.risk_assessment.risk_score = 0
        /\ record.risk_assessment.top_risk_areas = <<>>
        /\ record.risk_assessment.recommendations # <<>>

\* assess_risk was called on the empty clause list of a document that is not
\* empty and met no fault
C7_EmptyClauseListAssessed ==
    /\ record.kind = "analysis"
    /\ record.text # <<>> /\ record.faults = {}
    /\ record.analysis_result.clauses = <<>>
    /\ record.risk_assessment.recommendations = <<"Document analysis required">>

Degraded(analysis_result) ==
    /\ analysis_result.summary.kind = "Error analyzing document: ..."
    /\ analysis_result.clauses = <<>>
    /\ analysis_result.document_type = "unknown"

\* the fault points of faults the analysis of txt comes to
FaultsMet(txt, faults) ==
    LET n == IF {"split", "split_fallback"} \subseteq faults THEN 0
             ELSE Len(_split_into_clauses(txt, "split" \in faults))
    IN  {f \in faults :
            \/ f \in {"split", "summary", "doc_type"}
            \/ f = "split_fallback" /\ "split" \in faults
            \/ f = "clause_0" /\ n >= 1
            \/ f = "clause_1" /\ n >= 2
            \/ f = "clause_n" /\ n >= 3}

\* C8 as stated: analyze_document never raises, and on any internal fault (in
\* segmentation, in the analysis of one clause, in the summary or in the
\* document-type detection) it returns the degraded record: an error summary,
\* no clauses, document_type 'unknown'.
C8_AnyFaultYieldsDegradedRecord ==
    (record.kind = "analysis" /\ FaultsMet(record.text, record.faults) # {})
        => Degraded(record.analysis_result)

FailedClause(clause) ==
    /\ clause.clause_type = "unknown"
    /\ clause.risk_score = 5 /\ clause.risk_level = "medium"
    /\ clause.risk_factors = << <<"Analysis failed">> >>

\* C8, amended: analyze_document never raises; it returns the degraded record
\* exactly when a fault escapes the inner handlers, that is when the
\* segmentation and its paragraph fallback both fail or the document-type
\* detection fails.  A fault in the segmentation alone gives the paragraphs
\* of the fallback as clauses, a fault in the analysis of one clause gives
\* that clause the record of a failed analysis (type 'unknown', score 5,
\* level medium, content cut to 200 characters) among the other clauses, and
\* a fault in the summary gives an error summary beside the clauses and the
\* detected document type.
C8_DegradedOnlyWhenFaultEscapes ==
    record.kind = "analysis" =>
        LET result == record.analysis_result
            faults == record.faults
            escapes == {"split", "split_fallback"} \subseteq faults \/ "doc_type" \in faults
            parts == IF "split" \in faults THEN ParagraphFallback(record.text)
                     ELSE Take(MeaningfulSections(record.text), 20)
        IN  /\ Degraded(result) <=> escapes
            /\ ~escapes =>
                 /\ Len(result.clauses) = Len(parts)
                 /\ \A i \in 1..Len(parts) :
                      /\ FailedClause(result.clauses[i]) <=> ClauseFault(i - 1) \in faults
                      /\ result.clauses[i].content =
                           Truncated(parts[i],
                                     IF ClauseFault(i - 1) \in faults THEN 200 ELSE 500)
                 /\ result.document_type # "unknown"
                 /\ "summary" \in faults <=>
                      result.summary.kind =
                        "Document analysis summary ... Analysis encountered some issues"

\* the analysis of the first clause failed and the document's record still
\* holds its clauses
C8_ClauseFaultAbsorbed ==
    /\ record.kind = "analysis"
    /\ "clause_0" \in record.faults
    /\ Len(record.analysis_result.clauses) >= 2
    /\ FailedClause(record.analysis_result.clauses[1])
    /\ ~FailedClause(record.analysis_result.clauses[2])

----------------------------------------------------------------------------
(* The notice scenario *)

\* the notice clause went through _analyze_clause and _analyze_clause_risk,
\* neither raising
NoticeScenarioAnalyzed ==
    pc = "risk_analyzed" /\ text = NoticeScenarioClause /\ fault = {}

\* a factor naming a high-risk term, in the wording of either scorer
HighRiskFactors ==
    {HighKeywordFactor(high_risk_keywords[k]) : k \in 1..Len(high_risk_keywords)}
      \cup {HighTermFactor(high_risk_terms[k]) : k \in 1..Len(high_risk_terms)}

\* C11: for the clause "Either party may terminate this Agreement upon 30 days
\* written notice to the other party." the classifier returns termination, no
\* high-risk term of _assess_clause_risk or of _analyze_clause_risk occurs in
\* it (and neither factor list names one), and both scores are in 4..6 with
\* level medium.
C11_NoticeScenarioIsMediumTermination ==
    NoticeScenarioAnalyzed =>
        /\ record.clause.clause_type = "termination"
        /\ _identify_clause_type(text) = "termination"
        /\ ~AnyIn(high_risk_keywords, Lower(text))
        /\ ~AnyIn(high_risk_terms, Lower(text))
        /\ \A f \in HighRiskFactors :
             ~InFactors(record.clause.risk_factors, f) /\ ~InFactors(record.risk.factors, f)
        /\ record.clause.risk_score \in 4..6 /\ record.clause.risk_level = "medium"
        /\ record.risk.score \in 4..6 /\ record.risk.level = "medium"

\* the notice clause, analyzed and scored by both scorers
C11_NoticeScenarioScored ==
    NoticeScenarioAnalyzed /\ record.clause.risk_score = 5 /\ record.risk.score = 6

----------------------------------------------------------------------------
(* Documents without a clause *)

\* the separator passes of _split_into_clauses completed on the document of
\* the last call, and none of the fragments they cut is longer than 100
\* characters
NoLongFragment ==
    /\ record.kind = "analysis"
    /\ "split" \notin record.faults
    /\ \A i \in 1..Len(Fragments(record.text)) :
         StrLen(Fragments(record.text)[i]) <= MinClauseLen

\* C12: for a document none of whose segmented fragments exceeds 100
\* characters, analyze_document followed by assess_risk, as upload_document
\* runs them, yields a record (not an exception) with an empty clause list and
\* overall_risk 'unknown'; this covers fragments of 51..100 characters, which
\* the loop of analyze_document would accept, and every fault point met after
\* the separator passes.
C12_NoLongFragmentNoClauseUnknownRisk ==
    NoLongFragment =>
        /\ record.analysis_result.clauses = <<>>
        /\ record.risk_assessment.overall_risk = "unknown"
        /\ record.risk_assessment.overall_risk \notin {"low", "medium", "high"}

\* a document made of two sections of 51..100 characters went through the
\* pipeline without meeting a fault
C12_ShortSectionsAnalyzed ==
    /\ NoLongFragment
    /\ record.faults = {}
    /\ record.text = JoinSections(<<ShortSection, ShortSection>>)
    /\ Len(Fragments(record.text)) >= 2
    /\ \E i \in 1..Len(Fragments(record.text)) :
         StrLen(Fragments(record.text)[i]) > SubstantialLen

----------------------------------------------------------------------------
(* The amount of a payment clause *)

\* the str s holds the str x
HoldsStr(s, x) == \E i \in 1..(Len(s) - Len(x) + 1) : SubSeq(s, i, i + Len(x) - 1) = x

\* C13: for every clause classified as payment whose text contains the amount
\* "$5,000", whichever payment pattern classified it and whatever surrounds
\* the amount, the simplified explanation holds the sentence "The amount
\* involved is $5,000." and the amounts list extract_entities returns for the
\* text contains "$5,000".
C13_PaymentClauseAmountInBoth ==
    (/\ _identify_clause_type(text) = "payment"
     /\ Contains(text, <<"$", "5", ",", "000">>))
    => /\ record.kind = "clause" =>
            HoldsStr(Spelled(record.clause.simplified),
                     Spell("The amount involved is $5,000."))
       /\ (record.kind = "entities" /\ fault = {}) =>
            "$5,000" \in Range(record.entities.amounts)

----------------------------------------------------------------------------
(* The entity lists *)

\* item is clean: 3..200 characters, no white space at either end and no two
\* white-space characters in a row
CleanStr(item) ==
    LET cs == Spell(item)
    IN  /\ MinItemLen <= Len(cs) /\ Len(cs) <= MaxItemLen
        /\ cs[1] \notin SpaceChars /\ cs[Len(cs)] \notin SpaceChars
        /\ \A i \in 1..(Len(cs) - 1) : ~(cs[i] \in SpaceChars /\ cs[i + 1] \in SpaceChars)

\* items is a list extract_entities may return for a kind
CleanList(items) ==
    /\ \A i \in 1..Len(items) : CleanStr(items[i])
    /\ \A i, j \in 1..Len(items) :
         i # j => LowerStr(Spell(items[i])) # LowerStr(Spell(items[j]))
    /\ \A i \in 1..(Len(items) - 1) : StrLess(Spell(items[i]), Spell(items[i + 1]))
    /\ Len(items) <= MaxItems

\* C17: every list extract_entities returns, for each of the ten kinds, holds
\* only items of 3..200 characters without leading, trailing or repeated
\* white space, no two items equal ignoring case, in ascending order of their
\* code points, and at most 10 of them; when extract_entities raises inside
\* its try block the result has the ten kinds, each with the empty list.
C17_EntityListsCleanSortedCapped ==
    record.kind = "entities" =>
        /\ DOMAIN record.entities = EntityKinds
        /\ \A k \in EntityKinds : CleanList(record.entities[k])
        /\ fault = {"entities"} => \A k \in EntityKinds : record.entities[k] = <<>>

\* a text with more than 10 different amounts was extracted from, and the
\* amounts list came back with 10
C17_AmountsCapped ==
    /\ record.kind = "entities" /\ fault = {}
    /\ Cardinality(extract_monetary_amounts(Spelled(text))) > MaxItems
    /\ Len(record.entities.amounts) = MaxItems

----------------------------------------------------------------------------
(* The overall risk of a clause list *)

\* the scores assess_risk collects, one per clause of the list it was given
IndividualRisks == [i \in 1..Len(record.clauses) |->
                       _analyze_clause_risk(record.clauses[i], FALSE).score]

\* the number of clauses scoring 7 or more
HighRiskCount == Cardinality({i \in 1..Len(record.clauses) : IndividualRisks[i] >= 7})

\* the first rule of the order: average >= 7, or maximum >= 9, or at least 3
\* clauses scoring 7 or more
HighRule ==
    \/ SumSeq(IndividualRisks) >= 7 * Len(IndividualRisks)
    \/ \E i \in 1..Len(IndividualRisks) : IndividualRisks[i] >= 9
    \/ HighRiskCount >= 3

\* the second rule: average >= 5, or maximum >= 7, or at least one clause
\* scoring 7 or more
MediumRule ==
    \/ SumSeq(IndividualRisks) >= 5 * Len(IndividualRisks)
    \/ \E i \in 1..Len(IndividualRisks) : IndividualRisks[i] >= 7
    \/ HighRiskCount >= 1

\* C14: for every non-empty clause list, overall_risk is high when the first
\* rule holds, otherwise medium when the second rule holds, otherwise low; so
\* it is low only when the average is below 5 and no clause scores 7 or
\* more, and it is never 'unknown'.
C14_OverallRiskDecisionOrder ==
    pc = "risk_assessed" =>
        /\ record.clauses # <<>>
        /\ record.risk_assessment.overall_risk =
               (IF HighRule THEN "high" ELSE IF MediumRule THEN "medium" ELSE "low")
        /\ record.risk_assessment.overall_risk = "low" =>
               /\ SumSeq(IndividualRisks) < 5 * Len(IndividualRisks)
               /\ \A i \in 1..Len(IndividualRisks) : IndividualRisks[i] < 7
        /\ record.risk_assessment.overall_risk # "unknown"

\* a list was assessed that is high by the count of its high-risk clauses
\* alone: three clauses score 7 or more, the average is below 7 and the
\* maximum below 9
C14_HighByCountAlone ==
    /\ pc = "risk_assessed"
    /\ HighRiskCount >= 3
    /\ SumSeq(IndividualRisks) < 7 * Len(IndividualRisks)
    /\ \A i \in 1..Len(IndividualRisks) : IndividualRisks[i] < 9
    /\ record.risk_assessment.overall_risk = "high"

----------------------------------------------------------------------------
(* The scores the aggregator averages *)

\* the risk_score fields of the clause records of the last analysis
StoredScores == [i \in 1..Len(record.analysis_result.clauses) |->
                    record.analysis_result.clauses[i].risk_score]

\* C15: for every clause list analyze_document produces, the score assess_risk
\* computes for a clause equals the risk_score stored in that clause's
\* record, so the document's risk_score, maximum and high-risk count are the
\* average (rounded to tenths), the maximum and the count of the stored scores.
C15_AggregatorAveragesStoredScores ==
    (/\ record.kind = "analysis"
     /\ record.analysis_result.clauses # <<>>
     /\ "assess" \notin record.faults) =>
        /\ \A i \in 1..Len(StoredScores) :
               _analyze_clause_risk(record.analysis_result.clauses[i], FALSE).score
                   = StoredScores[i]
        /\ record.risk_assessment.risk_score =
               RoundTenths(SumSeq(StoredScores), Len(StoredScores))
        /\ record.risk_assessment.max_risk_score = MaxSeq(StoredScores)
        /\ record.risk_assessment.high_risk_clauses =
               Cardinality({i \in 1..Len(StoredScores) : StoredScores[i] >= 7})

----------------------------------------------------------------------------
(* Scores of a clause longer than its stored content *)

\* the score assess_risk would compute for clause i were its record to hold
\* the whole text of the section it was made from
ScoreOfWholeText(i) ==
    _analyze_clause_risk([record.clauses[i] EXCEPT !.content = sections[i]], FALSE).score

\* C16: both scores of a clause are computed from its untruncated text: the
\* risk_score of its record is the score _assess_clause_risk gives the whole
\* text, and the score assess_risk computes from the record is the score it
\* gives the whole text, so a risk term after the first 500 characters
\* counts in both.
C16_ScoresUseUntruncatedText ==
    pc = "risk_assessed" =>
        \A i \in 1..Len(record.clauses) :
            /\ record.clauses[i].risk_score =
                   _assess_clause_risk(sections[i], record.clauses[i].clause_type).score
            /\ IndividualRisks[i] = ScoreOfWholeText(i)

----------------------------------------------------------------------------
(* The compliance check *)

\* the jurisdiction of the last check is, whatever its case, none of indian,
\* us and eu
UnknownJurisdiction ==
    Joined(LowerStr(Spell(record.jurisdiction))) \notin {"indian", "us", "eu"}

\* the number of checks: the required clauses and the restricted terms of
\* the rule set of a jurisdiction
ChecksOf(name) ==
    Len(jurisdiction_rules[name].required_clauses)
        + Len(jurisdiction_rules[name].restricted_terms)

\* C18: for a jurisdiction that is, case-insensitively, none of indian, us
\* and eu, check_jurisdiction_compliance returns the issues, recommendations,
\* compliance_score and compliance_level it returns for 'indian' on the same
\* clauses; for every jurisdiction the score is 100 * (checks - issues) /
\* checks, between 0 and 100, and the level is High from 80, Medium from 60
\* and Low below.
C18_UnknownJurisdictionCheckedAsIndian ==
    record.kind = "compliance" =>
        LET result == record.compliance_result
            indian == check_jurisdiction_compliance(record.clauses, "indian", FALSE)
            name == IF UnknownJurisdiction THEN "indian"
                    ELSE Joined(LowerStr(Spell(record.jurisdiction)))
        IN  /\ UnknownJurisdiction =>
                   /\ result.issues = indian.issues
                   /\ result.recommendations = indian.recommendations
                   /\ result.compliance_score = indian.compliance_score
                   /\ result.compliance_level = indian.compliance_level
            /\ Len(result.issues) <= ChecksOf(name)
            /\ result.compliance_score * ChecksOf(name)
                   = 10 * 100 * (ChecksOf(name) - Len(result.issues))
            /\ result.compliance_score \in 0..(10 * 100)
            /\ result.compliance_level =
                   (IF result.compliance_score >= 10 * 80 THEN "High"
                    ELSE IF result.compliance_score >= 10 * 60 THEN "Medium"
                    ELSE "Low")

\* a document with a termination clause and no dispute resolution clause was
\* checked for a jurisdiction the table does not hold: one issue of four
\* checks, a score of 75, Medium
C18_UnknownJurisdictionMedium ==
    /\ record.kind = "compliance"
    /\ record.jurisdiction = "uk"
    /\ record.compliance_result.issues =
           << <<"Missing required {} clause", "dispute resolution">> >>
    /\ record.compliance_result.compliance_score = 750
    /\ record.compliance_result.compliance_level = "Medium"

----------------------------------------------------------------------------
(* The answer to a question *)

\* the lists of synonyms the question of the last call selects: those one of
\* whose members the question holds, whatever its case
SelectedSynonyms ==
    UNION {{question_keywords[k][n] : n \in 1..Len(question_keywords[k])} :
           k \in {g \in 1..Len(question_keywords) :
                    \E n \in 1..Len(question_keywords[g]) :
                        ContainsStr(Spell(record.question), question_keywords[g][n])}}

\* the clauses of the last call, by position, whose content (whatever its
\* case) or clause type holds a selected synonym
MatchingClauses ==
    {i \in 1..Len(record.clauses) :
        \E synonym \in SelectedSynonyms :
            \/ ContainsStr(Spelled(record.clauses[i].content), synonym)
            \/ InStr(Spell(synonym), Spell(record.clauses[i].clause_type))}

\* the first n positions of S, in ascending order
RECURSIVE FirstOf(_, _)
FirstOf(S, n) ==
    IF S = {} \/ n = 0 THEN <<>>
    ELSE LET least == CHOOSE i \in S : \A j \in S : i <= j
         IN  <<least>> \o FirstOf(S \ {least}, n - 1)

\* C19: answer_question returns the fixed "I couldn't find specific
\* information ..." string when no clause matches the synonyms the question
\* selects; otherwise the answer is made of the simplified explanations of
\* the first three matching clauses (or fewer) in clause order, and ends with
\* the high-risk warning exactly when some matching clause has risk_level
\* 'high'.
C19_AnswerFromFirstThreeMatches ==
    record.kind = "answer" =>
        LET quoted == FirstOf(MatchingClauses, 3)
            explanations == [k \in 1..Len(quoted) |-> record.clauses[quoted[k]].simplified]
            flagged == \E i \in MatchingClauses : record.clauses[i].risk_level = "high"
        IN  IF MatchingClauses = {} THEN record.answer = NoInformationAnswer
            ELSE /\ record.answer # NoInformationAnswer
                 /\ record.answer =
                        AnswerOpening \o JoinParts(explanations) \o
                        (IF flagged THEN HighRiskWarning ELSE <<>>)
                 /\ flagged <=> record.answer[Len(record.answer)] = HighRiskWarning[1]

\* a question on ending the contract was answered from four termination
\* clauses of which only the fourth is high-risk: the answer quotes the first
\* three and carries the warning
C19_WarningForUnquotedClause ==
    /\ record.kind = "answer"
    /\ MatchingClauses = 1..4
    /\ \A i \in 1..3 : record.clauses[i].risk_level # "high"
    /\ record.clauses[4].risk_level = "high"
    /\ record.answer[Len(record.answer)] = HighRiskWarning[1]

----------------------------------------------------------------------------
(* The top risk areas *)

\* the positions of the clauses of a category in the list assess_risk was given
ClausesOf(category) == {i \in 1..Len(record.clauses) :
                           record.clauses[i].clause_type = category}

\* the highest score assess_risk computed for a clause of the category
CategoryMax(category) ==
    CHOOSE m \in {IndividualRisks[i] : i \in ClausesOf(category)} :
        \A i \in ClausesOf(category) : IndividualRisks[i] <= m

\* the first clause of the category, in document order, whose score is the
\* category's maximum
FirstAtMax(category) ==
    CHOOSE i \in ClausesOf(category) :
        /\ IndividualRisks[i] = CategoryMax(category)
        /\ \A j \in ClausesOf(category) : IndividualRisks[j] = CategoryMax(category) => i <= j

\* C20: every top risk area assess_risk emits carries, as sample_clause, the
\* simplified text of the first clause of its category whose score is the
\* category's maximum, and the stored risk_score of that clause is the value
\* the search looks for, so the clause is always found; the areas are in
\* descending order of their average score and there are at most 5 of them.
C20_SampleClauseIsFirstAtCategoryMax ==
    pc = "risk_assessed" =>
        LET areas == record.risk_assessment.top_risk_areas
        IN  /\ \A k \in 1..Len(areas) :
                   /\ record.clauses[FirstAtMax(areas[k].area)].risk_score
                          = areas[k].max_risk_score
                   /\ areas[k].sample_clause =
                          record.clauses[FirstAtMax(areas[k].area)].simplified
            /\ \A k \in 1..(Len(areas) - 1) :
                   areas[k].avg_risk_score >= areas[k + 1].avg_risk_score
            /\ Len(areas) <= 5

----------------------------------------------------------------------------
(* The recommendations *)

\* the message that opens the recommendations of each overall risk level
LevelMessage(level) ==
    CASE level = "high" ->
           "CRITICAL: This contract has significant risks. Strongly consider legal review before signing."
      [] level = "medium" ->
           "CAUTION: This contract has moderate risks. Review carefully and consider legal consultation."
      [] OTHER -> "This contract appears to have manageable risk levels."

\* the recommendations of the triggered factors and of the categories
TriggeredMessages ==
    {"Consider negotiating a liability cap to limit your financial exposure.",
     "Request a cure period or notice requirement for termination clauses.",
     "Push for more balanced terms that don't heavily favor the other party.",
     "Request clarification on vague or ambiguous language.",
     "Review payment terms carefully - consider negotiating penalties and fees.",
     "The liability clause is high-risk - consider insurance or indemnification.",
     "Termination terms are unfavorable - negotiate for more balanced conditions."}

FallbackMessages ==
    <<"Ensure you understand all terms before signing.",
      "Keep copies of all documents and correspondence.">>

\* C21: the recommendations of a non-empty clause list are the one message of
\* the overall risk level, then either recommendations of triggered factors
\* and categories, each at most once, or, when none of them applies, the two
\* generic recommendations, whatever the overall risk level; there are at
\* most 10.
C21_OneLevelMessageThenTriggeredOrFallback ==
    pc = "risk_assessed" =>
        LET recs == record.risk_assessment.recommendations
            rest == Tail(recs)
        IN  /\ recs[1] = LevelMessage(record.risk_assessment.overall_risk)
            /\ \/ rest = FallbackMessages
               \/ /\ rest # <<>>
                  /\ \A i \in 1..Len(rest) : rest[i] \in TriggeredMessages
                  /\ \A i, j \in 1..Len(rest) : rest[i] = rest[j] => i = j
            /\ Len(recs) <= 10

----------------------------------------------------------------------------
(* The appends of the simplifier *)

\* C22: the simplified text of a clause is the template of its category
\* followed by each of the four appends whose own trigger the text holds, in
\* this order: the notice sentence (termination and an "N days notice"), the
\* no-specific-reason note ("cause" and "without"), the amount sentence
\* (payment and a dollar amount), the late-penalty note ("late" and "fee");
\* a text with termination, a notice, payment and an amount gets both the
\* notice sentence and the amount sentence.
C22_AppendsIndependent ==
    (pc = "analyzed" /\ fault = {}) =>
        LET text_lower == Lower(text)
            mentions(x) == Contains(text_lower, x)
        IN  record.clause.simplified =
                <<simplification_templates(record.clause.clause_type)>> \o
                (IF mentions(<<"terminat", "ion">>) THEN NoticeSentence(text_lower) ELSE <<>>) \o
                NoReasonSentence(text_lower) \o
                (IF mentions(<<"pay", "ment">>) THEN AmountSentence(text) ELSE <<>>) \o
                LateFeeSentence(text_lower)

----------------------------------------------------------------------------
(* The segmenter when no separator matches *)

\* no pattern of clause_separators matches anywhere in the text
NoSeparatorMatches(txt) ==
    \A k \in 1..Len(clause_separators) : ~Search(clause_separators[k], txt)

\* C23: when none of the five separator patterns matches anywhere in the
\* text, the segmenter returns the blank-line-delimited paragraphs longer
\* than the threshold, at most 10 of them, and not the whole text as one
\* clause.
C23_NoBoundaryFallsBackToParagraphs ==
    (pc = "seg_done" /\ fault = {} /\ NoSeparatorMatches(text)) =>
        sections = ParagraphFallback(text)

----------------------------------------------------------------------------
(* The fallback classification *)

\* some pattern of some category matches the lower-cased text
CategoryMatches(text_lower) ==
    \E k \in 1..Len(clause_patterns) : MatchesType(clause_patterns[k], text_lower)

HoldsObligationWord(text_lower) ==
    \/ Contains(text_lower, <<"shall">>)
    \/ Contains(text_lower, <<"will">>)
    \/ Contains(text_lower, <<"must">>)
    \/ Contains(text_lower, <<"required">>)

HoldsPermissionWord(text_lower) ==
    \/ Contains(text_lower, <<"may">>)
    \/ Contains(text_lower, <<"can">>)
    \/ Contains(text_lower, <<"permitted">>)
    \/ Contains(text_lower, <<"allowed">>)

\* C24: when no category pattern matches, the clause type is "obligation" if
\* the lower-cased text holds any of shall, will, must, required; otherwise
\* "right" if it holds any of may, can, permitted, allowed; otherwise
\* "general".  Obligation wins over right, and the three labels are given
\* only when no category pattern matches.
C24_FallbackLabels ==
    (pc = "identified") =>
        /\ ~CategoryMatches(Lower(text)) =>
               record.clause_type =
                   IF HoldsObligationWord(Lower(text)) THEN "obligation"
                   ELSE IF HoldsPermissionWord(Lower(text)) THEN "right"
                   ELSE "general"
        /\ record.clause_type \in {"obligation", "right", "general"} =>
               ~CategoryMatches(Lower(text))

\* a text with an obligation word and a permission word was classified
C24_ObligationOverRight ==
    /\ pc = "identified"
    /\ HoldsObligationWord(Lower(text))
    /\ HoldsPermissionWord(Lower(text))
    /\ record.clause_type = "obligation"

----------------------------------------------------------------------------
(* The risk factors of a clause record *)

\* the factors the scoring rules of _assess_clause_risk append
RuleFactors ==
    {HighKeywordFactor(high_risk_keywords[k]) : k \in 1..Len(high_risk_keywords)}
      \cup {MediumKeywordFactor(medium_risk_keywords[k]) : k \in 1..Len(medium_risk_keywords)}
      \cup {AllowsImmediateTermination, UnlimitedLiabilityExposure, LiabilityIsLimited,
            ContainsPaymentPenalties}

\* the scoring rules whose condition the text meets, under its own category
RulesFired(txt) ==
    {<<"high", k>> : k \in {k \in 1..Len(high_risk_keywords) :
                               Contains(Lower(txt), high_risk_keywords[k])}}
      \cup {<<"medium", k>> : k \in {k \in 1..Len(medium_risk_keywords) :
                                        Contains(Lower(txt), medium_risk_keywords[k])}}
      \cup (IF \/ /\ _identify_clause_type(txt) = "termination"
                   /\ \/ Contains(Lower(txt), <<"immediate">>)
                      \/ Contains(Lower(txt), <<"without", " ", "notice">>)
                \/ /\ _identify_clause_type(txt) = "liability"
                   /\ \/ Contains(Lower(txt), <<"un", "limited">>)
                      \/ Contains(Lower(txt), <<"limited">>)
                \/ /\ _identify_clause_type(txt) = "payment"
                   /\ \/ Contains(Lower(txt), <<"penalty">>)
                      \/ Contains(Lower(txt), <<"liquidated", " ", "damage", "s">>)
             THEN {<<"specific", 1>>} ELSE {})

Distinct(seq) == \A i, j \in 1..Len(seq) : seq[i] = seq[j] => i = j

\* C25, as stated: in every clause record, the one of a failed analysis
\* included, risk_factors is non-empty and without duplicates, and it is the
\* single sentinel "Standard clause with typical terms" exactly when no
\* scoring rule contributed a factor to it.
C25_SentinelExactlyWhenNoRuleContributed ==
    (pc = "analyzed") =>
        /\ record.clause.risk_factors # <<>>
        /\ Distinct(record.clause.risk_factors)
        /\ record.clause.risk_factors = <<StandardClause>>
             <=> \A i \in 1..Len(record.clause.risk_factors) :
                    record.clause.risk_factors[i] \notin RuleFactors

\* C25, amended: in every clause record risk_factors is non-empty and without
\* duplicates.  In the record of a clause analyzed without a fault it is the
\* single sentinel "Standard clause with typical terms" exactly when no
\* scoring rule fired on the clause, and holds factors of scoring rules only
\* otherwise; in the record of a failed analysis it is the single factor
\* "Analysis failed", whatever the clause holds.
C25_SentinelOrFailureFactor ==
    (pc = "analyzed") =>
        /\ record.clause.risk_factors # <<>>
        /\ Distinct(record.clause.risk_factors)
        /\ fault = {} =>
             /\ record.clause.risk_factors = <<StandardClause>> <=> RulesFired(text) = {}
             /\ RulesFired(text) # {} =>
                  /\ \A i \in 1..Len(record.clause.risk_factors) :
                        record.clause.risk_factors[i] \in RuleFactors
                  /\ Len(record.clause.risk_factors) = Cardinality(RulesFired(text))
        /\ fault # {} => record.clause.risk_factors = << <<"Analysis failed">> >>

\* the analysis of a clause on which no scoring rule fires has failed
C25_FailedClauseWithoutSentinel ==
    /\ pc = "analyzed"
    /\ fault = {"clause_0"}
    /\ text # <<>>
    /\ RulesFired(text) = {}
    /\ record.clause.risk_factors = << <<"Analysis failed">> >>

----------------------------------------------------------------------------
(* The distribution of the risk scores *)

\* the aggregator's scores of the clauses of a list
AggregatorScores(clauses) ==
    [i \in 1..Len(clauses) |-> _analyze_clause_risk(clauses[i], FALSE).score]

\* the bucket of a score: score < 4, 4 <= score < 7, score >= 7
Bucket(score) == IF score < 4 THEN "low" ELSE IF score < 7 THEN "medium" ELSE "high"

CountIn(scores, bucket) == Cardinality({i \in 1..Len(scores) : Bucket(scores[i]) = bucket})

\* the raw counts of a distribution are those of the buckets of the scores
CountsBucket(counts, scores) ==
    /\ counts.low = CountIn(scores, "low")
    /\ counts.medium = CountIn(scores, "medium")
    /\ counts.high = CountIn(scores, "high")

\* C26: for every clause list the aggregator accepts, the empty list
\* included, risk_distribution holds raw counts for low, medium and high that
\* bucket the scores of the clauses by score < 4, 4 <= score < 7 and
\* score >= 7; the counts sum to total_clauses, the high count is
\* high_risk_clauses, and the buckets are the levels of _score_to_level for
\* every score from 1 to 10.
C26_DistributionCountsBucketScores ==
    (record.kind = "analysis" /\ "assess" \notin record.faults) =>
        /\ record.risk_assessment.risk_distribution.counts # <<>>
        /\ CountsBucket(record.risk_assessment.risk_distribution.counts[1],
                        AggregatorScores(record.analysis_result.clauses))
        /\ record.risk_assessment.risk_distribution.counts[1].low
             + record.risk_assessment.risk_distribution.counts[1].medium
             + record.risk_assessment.risk_distribution.counts[1].high
             = record.risk_assessment.total_clauses
        /\ record.risk_assessment.risk_distribution.counts[1].high
             = record.risk_assessment.high_risk_clauses
        /\ \A score \in 1..10 : Bucket(score) = _score_to_level(score)

----------------------------------------------------------------------------
(* The base scores the aggregator uses *)

\* the categories of clause_patterns
PatternCategories == {clause_patterns[k].type : k \in 1..Len(clause_patterns)}

\* the labels of the fallback classification and of the failed analysis
FallbackLabels == {"obligation", "right", "general", "unknown"}

\* the base score of each clause type the analyzer gives
UsedBase(ctype) ==
    CASE ctype = "termination" -> 6
      [] ctype = "liability" -> 7
      [] ctype = "payment" -> 5
      [] ctype = "confidentiality" -> 3
      [] ctype = "intellectual_property" -> 4
      [] ctype = "dispute_resolution" -> 5
      [] ctype \in FallbackLabels -> 4

\* C27: a clause record of the analyzer has one of the six pattern categories
\* or one of the labels obligation, right, general, unknown, never the key
\* 'obligations' of the table of base scores; the aggregator's scorer starts
\* from 4 for the four labels and from 6, 7, 5, 3, 4, 5 for the six
\* categories, and that base is the score when nothing adjusts it.
C27_FallbackLabelsScoreFromFour ==
    (pc = "risk_analyzed" /\ "clause_risk" \notin fault) =>
        /\ record.clause.clause_type \in PatternCategories \cup FallbackLabels
        /\ record.clause.clause_type # "obligations"
        /\ record.clause.clause_type \in FallbackLabels =>
               base_risk_scores(record.clause.clause_type) = 4
        /\ base_risk_scores(record.clause.clause_type) = UsedBase(record.clause.clause_type)
        /\ record.risk.factors = <<>> =>
               record.risk.score = UsedBase(record.clause.clause_type)

\* a clause of type obligation that nothing adjusts was scored 4
C27_ObligationScoredFour ==
    /\ pc = "risk_analyzed"
    /\ "clause_risk" \notin fault
    /\ record.clause.clause_type = "obligation"
    /\ record.risk.factors = <<>>
    /\ record.risk.score = 4

----------------------------------------------------------------------------
(* The compliance of analyzer-produced clauses with 'eu' *)

\* C30: for the jurisdiction 'eu' and clause records of the analyzer, whose
\* clause types are pattern categories or fallback labels, the two required
\* clauses 'data protection' and 'consumer rights' are both reported
\* missing, so that at least 2 of the 4 checks fail, compliance_score is at
\* most 50 and compliance_level is 'Low'.
C30_EuAlwaysLow ==
    (record.kind = "compliance" /\ Joined(LowerStr(Spell(record.jurisdiction))) = "eu") =>
        /\ \A i \in 1..Len(record.clauses) :
              record.clauses[i].clause_type \in PatternCategories \cup FallbackLabels
        /\ Len(record.compliance_result.issues) >= 2
        /\ record.compliance_result.issues[1]
               = <<"Missing required {} clause", "data protection">>
        /\ record.compliance_result.issues[2]
               = <<"Missing required {} clause", "consumer rights">>
        /\ ChecksOf("eu") = 4
        /\ record.compliance_result.compliance_score <= 10 * 50
        /\ record.compliance_result.compliance_level = "Low"

\* a document with a restricted term of 'eu' was checked for 'eu': three of
\* the four checks fail, a score of 25
C30_EuThreeIssues ==
    /\ record.kind = "compliance"
    /\ record.jurisdiction = "eu"
    /\ record.clauses # <<>>
    /\ Len(record.compliance_result.issues) = 3
    /\ record.compliance_result.compliance_score = 250
    /\ record.compliance_result.compliance_level = "Low"

----------------------------------------------------------------------------
(* The store under interleaved requests *)

\* a request was answered on this step
Answered(request, status) ==
    /\ response'.serial # response.serial
    /\ response'.request = request
    /\ response'.status = status

\* C28: under any sequence and interleaving of requests, a successful upload
\* adds exactly one entry, under a document id that was not in the store, and
\* leaves the entries of the store as they were; no step removes an entry;
\* a failed upload, and a request naming an unknown document id, leave the
\* store unchanged.
C28_UploadAddsOneFreshEntry ==
    [][ /\ DOMAIN documents_store \subseteq DOMAIN documents_store'
        /\ Answered("upload", 200) =>
             /\ response'.document_id \notin DOMAIN documents_store
             /\ DOMAIN documents_store' = DOMAIN documents_store \cup {response'.document_id}
             /\ \A d \in DOMAIN documents_store : documents_store'[d] = documents_store[d]
        /\ (response'.serial # response.serial /\ response'.status # 200) =>
             documents_store' = documents_store
        /\ (response'.serial # response.serial
              /\ response'.request # "upload"
              /\ response'.document_id \notin DOMAIN documents_store) =>
             /\ response'.status = 404
             /\ documents_store' = documents_store
      ]_vars

\* two uploads of the same second are stored, the last one just now, while
\* a third upload waits for its file
C28_SameSecondUploadsStored ==
    /\ record.kind = "store"
    /\ response.request = "upload" /\ response.status = 200
    /\ uploading # <<>>
    /\ \E d, e \in DOMAIN documents_store : d # e /\ d.second = e.second

----------------------------------------------------------------------------
(* What re-analysis and entity extraction leave alone *)

\* the aggregation of each clause list an analysis of a file gives
Aggregations ==
    [clauses \in {Analyses[key].clauses : key \in DOMAIN Analyses} |->
        assess_risk(clauses, FALSE)]

\* the fields of an entry
EntryFields ==
    {"document_id", "filename", "upload_time", "text_content", "summary", "clauses",
     "entities", "risk_assessment", "overall_risk", "last_analyzed"}

\* the step changes, in the store, at most the given fields of entry id
ChangesOnly(id, fields) ==
    /\ DOMAIN documents_store' = DOMAIN documents_store
    /\ \A d \in DOMAIN documents_store \ {id} : documents_store'[d] = documents_store[d]
    /\ \A field \in EntryFields \ fields :
          documents_store'[id][field] = documents_store[id][field]

\* C29: a re-analysis changes only the clauses, the summary and last_analyzed
\* of its entry, and an entity extraction only the entities of its entry:
\* risk_assessment, overall_risk, text_content, filename and every other
\* entry stay as they were; and after any sequence of uploads, re-analyses
\* and entity extractions the overall_risk of each entry is the one the
\* aggregation of its stored clauses gives.
C29_ReanalysisKeepsRiskOfStoredClauses ==
    /\ [][ /\ Answered("analyze", 200) =>
                /\ ChangesOnly(response'.document_id, {"clauses", "summary", "last_analyzed"})
                /\ documents_store'[response'.document_id].last_analyzed = <<second>>
           /\ Answered("extract-entities", 200) =>
                ChangesOnly(response'.document_id, {"entities"})
         ]_vars
    /\ [](\A d \in DOMAIN documents_store :
             /\ documents_store[d].overall_risk
                    = Aggregations[documents_store[d].clauses].overall_risk
             /\ documents_store[d].risk_assessment
                    = Aggregations[documents_store[d].clauses])

\* an entry with clauses, uploaded a second ago, was re-analyzed just now,
\* next to another entry
C29_ReanalyzedLater ==
    /\ record.kind = "store"
    /\ response.request = "analyze" /\ response.status = 200
    /\ Cardinality(DOMAIN documents_store) >= 2
    /\ documents_store[response.document_id].clauses # <<>>
    /\ documents_store[response.document_id].last_analyzed = <<second>>
    /\ documents_store[response.document_id].upload_time < second

====
